---- MODULE Spec2Model ----
(***************************************************************************)
(* Model of the manifest-driven image transform engine:                    *)
(*   - the crop geometry of src/src/adjustments.py (_crop_box and its      *)
(*     callers),                                                           *)
(*   - resize_image, process_variant and save_image of                     *)
(*     src/src/processing.py,                                              *)
(*   - run_yaml_pipeline of src/src/main.py,                               *)
(*   - apply_grading of src/src/adjustments.py.                            *)
(*                                                                         *)
(* Floating point values are modelled as exact rationals: a focal offset   *)
(* is an integer numerator over OffDen, a ratio is a pair of integers, and *)
(* Python's round() is round-half-to-even on a quotient of integers.       *)
(***************************************************************************)
EXTENDS Integers, Sequences, FiniteSets, TLC

VARIABLES
    cropImage,   \* crop geometry: (width, height) of the image being cropped
    cropCur,     \* crop geometry: the latest crop_to_aspect call and its box
    rsHeap,      \* resize: the image objects, by identity (index)
    rsCall,      \* resize: the latest resize_image call and its outcome
    pvTask,      \* process_variant: [source, output, operations]
    pvPc,        \* process_variant: "load", "ops", "except", "returned", "raised"
    pvOpIdx,     \* process_variant: position of the loop in the operation list
    pvImage,     \* process_variant: the working buffer `image`
    pvApplied,   \* process_variant: the operations applied so far, in order
    pvFiles,     \* process_variant: the output files
    pvFiles0,    \* process_variant: the output files when the call started
    pvFailed,    \* process_variant: where an exception was raised, and which
    pvSave,      \* process_variant: the save_image call, if any
    pvReturn,    \* process_variant: "none", "True" or "False"
    runPc,       \* run_yaml_pipeline: "loop", "done" or "raised"
    nTasks,      \* run_yaml_pipeline: len(tasks)
    runResults,  \* run_yaml_pipeline: per task reached, [output, executed, success, wrote]
    runFiles,    \* run_yaml_pipeline: the output files
    processed,   \* run_yaml_pipeline: the counter `processed`
    failed,      \* run_yaml_pipeline: the counter `failed`
    exitCode,    \* run_yaml_pipeline: the return value, -1 before it returns
    gradeImage,  \* apply_grading: the image passed in
    gradeCur,    \* apply_grading: the latest call, its mapping and its result
    primData,    \* primitives: the bytes of the source image, <<r, g, b, a>> per pixel
    primHeap,    \* primitives: the image objects, by identity (index)
    primCall,    \* primitives: the latest call of a primitive and its result
    taskManifest, \* iterate_tasks: the manifest passed in
    taskPos,      \* iterate_tasks: <<render, variant>> of the latest yield, <<0, 0>> before
    taskPc,       \* iterate_tasks: "running", "done" (exhausted) or "raised"
    taskYielded,  \* iterate_tasks: the tasks yielded so far
    mainArgv,    \* main: the argument list, or the command line when argv is None
    mainCall,    \* main: the pipeline it called, with what, and what main returned
    poolTasks,   \* the tasks of the run, in manifest order
    poolFiles,   \* the output tree the workers share
    poolResults, \* per task: "pending", "True" or "False"
    pipeIn,      \* the manifest file of a run: [kind, data]
    pipe         \* run_yaml_pipeline: [pc, tasks, k, processed, failed, code, exc]

cropVars == <<cropImage, cropCur>>

resizeVars == <<rsHeap, rsCall>>

variantVars == <<pvTask, pvPc, pvOpIdx, pvImage, pvApplied, pvFiles, pvFiles0,
                 pvFailed, pvSave, pvReturn>>

runVars == <<runPc, nTasks, runResults, runFiles, processed, failed, exitCode>>

gradeVars == <<gradeImage, gradeCur>>

primVars == <<primData, primHeap, primCall>>

taskVars == <<taskManifest, taskPos, taskPc, taskYielded>>

mainVars == <<mainArgv, mainCall>>

poolVars == <<poolTasks, poolFiles, poolResults>>

pipeVars == <<pipeIn, pipe>>

vars == <<cropImage, cropCur, rsHeap, rsCall, pvTask, pvPc, pvOpIdx, pvImage,
          pvApplied, pvFiles, pvFiles0, pvFailed, pvSave, pvReturn,
          runPc, nTasks, runResults, runFiles, processed, failed, exitCode,
          gradeImage, gradeCur, primData, primHeap, primCall,
          taskManifest, taskPos, taskPc, taskYielded,
          mainArgv, mainCall,
          poolTasks, poolFiles, poolResults,
          pipeIn, pipe>>

(***************************************************************************)
(* Bounds of the model.                                                    *)
(***************************************************************************)
MaxDim == 6        \* image widths and heights range over 1..MaxDim
MaxAspect == 3     \* free aspect ratios rw:rh range over 1..MaxAspect
MaxOffset == 3     \* offset numerators range over -MaxOffset..MaxOffset
MaxOps == 2        \* a variant has at most MaxOps operations
MaxTasks == 3      \* a manifest expands to at most MaxTasks tasks
MaxGradeKeys == 2  \* a grading mapping has at most MaxGradeKeys keys
MaxRenders == 2    \* a manifest has at most MaxRenders renders
MaxVariants == 2   \* a render has at most MaxVariants variants

(***************************************************************************)
(* Program constants.                                                      *)
(***************************************************************************)
OffDen == 2        \* offsets are k/OffDen: -1.0 is -OffDen, +1.0 is OffDen
GradeDen == 1000   \* grading parameters are k/GradeDen: 1.0 is GradeDen
RatioTolDen == 1000000   \* the 1e-6 of `abs(current_ratio - target_ratio) < 1e-6`

CROP_PRESETS ==
    [hero_21x9 |-> <<21, 9>>, card_4x3 |-> <<4, 3>>,
     web_16x9 |-> <<16, 9>>, square_1x1 |-> <<1, 1>>]

(***************************************************************************)
(* Arithmetic helpers.                                                     *)
(***************************************************************************)
Abs(x) == IF x < 0 THEN -x ELSE x

Max2(a, b) == IF a >= b THEN a ELSE b

Min2(a, b) == IF a <= b THEN a ELSE b

\* Python's int(round(p / q)) for q > 0: round half to even.
RoundHalfEven(p, q) ==
    LET fl == p \div q
        r  == p % q
    IN  IF 2 * r < q THEN fl
        ELSE IF 2 * r > q THEN fl + 1
        ELSE IF fl % 2 = 0 THEN fl ELSE fl + 1

\* _clamp(value, minimum, maximum)
_clamp(value, minimum, maximum) == Max2(minimum, Min2(maximum, value))

(***************************************************************************)
(* Focal offsets.  NoOffset models `offset is None`.                       *)
(***************************************************************************)
NoOffset == <<>>

OffsetNums == (-MaxOffset)..MaxOffset

OffsetPairs == OffsetNums \X OffsetNums

OffsetInputs == {NoOffset} \cup OffsetPairs

_normalize_offset(offset) ==
    IF offset = NoOffset
    THEN <<0, 0>>
    ELSE <<_clamp(offset[1], -OffDen, OffDen), _clamp(offset[2], -OffDen, OffDen)>>

(***************************************************************************)
(* _crop_box(original, target_ratio, offset): target_ratio is rw/rh, the   *)
(* offset is already normalized.  The result is (left, top, right, bottom).*)
(***************************************************************************)
\* abs(width/height - rw/rh) < 1/RatioTolDen, that is
\* |width*rh - rw*height| * RatioTolDen < height*rh, written with a quotient
\* so that the product stays within the integers of the checker.
RatioClose(width, height, rw, rh) ==
    Abs(width * rh - rw * height) <= (height * rh - 1) \div RatioTolDen

TooWide(width, height, rw, rh) == width * rh > rw * height

\* The slip `height / target_ratio` for `height * target_ratio` (and its dual).
CropBoxSwappedRatioMutant(original, aspect, offset) ==
    LET width  == original[1]
        height == original[2]
        rw     == aspect[1]
        rh     == aspect[2]
    IN  IF width = 0 \/ height = 0 THEN <<0, 0, width, height>>
        ELSE IF RatioClose(width, height, rw, rh) THEN <<0, 0, width, height>>
        ELSE IF TooWide(width, height, rw, rh)
        THEN LET new_width == RoundHalfEven(height * rh, rw)
                 available == width - new_width
                 left0     == RoundHalfEven(available * (offset[1] + OffDen), 2 * OffDen)
                 left      == Max2(0, Min2(width - new_width, left0))
             IN  <<left, 0, left + new_width, height>>
        ELSE LET new_height == RoundHalfEven(width * rw, rh)
                 available  == height - new_height
                 top0       == RoundHalfEven(available * (offset[2] + OffDen), 2 * OffDen)
                 top        == Max2(0, Min2(height - new_height, top0))
             IN  <<0, top, width, top + new_height>>

\* The slip `(1.0 - offset) / 2.0` for `(offset + 1.0) / 2.0`.
CropBoxReversedOffsetMutant(original, aspect, offset) ==
    LET width  == original[1]
        height == original[2]
        rw     == aspect[1]
        rh     == aspect[2]
    IN  IF width = 0 \/ height = 0 THEN <<0, 0, width, height>>
        ELSE IF RatioClose(width, height, rw, rh) THEN <<0, 0, width, height>>
        ELSE IF TooWide(width, height, rw, rh)
        THEN LET new_width == RoundHalfEven(height * rw, rh)
                 available == width - new_width
                 left0     == RoundHalfEven(available * (OffDen - offset[1]), 2 * OffDen)
                 left      == Max2(0, Min2(width - new_width, left0))
             IN  <<left, 0, left + new_width, height>>
        ELSE LET new_height == RoundHalfEven(width * rh, rw)
                 available  == height - new_height
                 top0       == RoundHalfEven(available * (OffDen - offset[2]), 2 * OffDen)
                 top        == Max2(0, Min2(height - new_height, top0))
             IN  <<0, top, width, top + new_height>>

_crop_box(original, aspect, offset) ==
    LET width  == original[1]
        height == original[2]
        rw     == aspect[1]
        rh     == aspect[2]
    IN  IF width = 0 \/ height = 0 THEN <<0, 0, width, height>>
        ELSE IF RatioClose(width, height, rw, rh) THEN <<0, 0, width, height>>
        ELSE IF TooWide(width, height, rw, rh)
        THEN \* Image is too wide -> trim the sides.
             LET new_width == RoundHalfEven(height * rw, rh)
                 available == width - new_width
                 \* offset_x = (offset[0] + 1.0) / 2.0
                 left0     == RoundHalfEven(available * (offset[1] + OffDen), 2 * OffDen)
                 left      == Max2(0, Min2(width - new_width, left0))
             IN  <<left, 0, left + new_width, height>>
        ELSE \* Image is too tall -> trim top/bottom.
             LET new_height == RoundHalfEven(width * rh, rw)
                 available  == height - new_height
                 top0       == RoundHalfEven(available * (offset[2] + OffDen), 2 * OffDen)
                 top        == Max2(0, Min2(height - new_height, top0))
             IN  <<0, top, width, top + new_height>>

\* crop_to_aspect(image, aspect, offset): the box handed to image.crop.
crop_to_aspect(size, aspect, offset) ==
    _crop_box(size, aspect, _normalize_offset(offset))

(***************************************************************************)
(* resize_image(image, target_size) of src/src/processing.py.              *)
(*                                                                         *)
(* An image object is [size, pixels]; pixels is the abstract content: the  *)
(* source content followed by the transforms that produced it.  A result   *)
(* of a call is [raised, exc, size, pixels].                               *)
(***************************************************************************)
Raise(exc) == [raised |-> TRUE, exc |-> exc, size |-> <<0, 0>>, pixels |-> <<>>]

Return(size, pixels) == [raised |-> FALSE, exc |-> "", size |-> size, pixels |-> pixels]

\* im_ratio > dest_ratio for im_ratio = w/h and dest_ratio = tw/th, all
\* denominators non-zero (Python compares the two quotients).
RatioGreater(w, h, tw, th) ==
    IF (h > 0) = (th > 0) THEN w * th > tw * h ELSE w * th < tw * h

\* Image.resize(size): an image of the same size is copied, a size with a
\* dimension below 1 is rejected, any other size is resampled.
ImageResize(image, size) ==
    IF image.size = size THEN Return(size, image.pixels)
    ELSE IF size[1] < 1 \/ size[2] < 1 THEN Raise("ValueError")
    ELSE Return(size, Append(image.pixels, "scaled"))

\* ImageOps.contain(image, size): the largest size of the image's ratio
\* inside `size`, then Image.resize to it.
ImageOpsContain(image, size) ==
    LET w  == image.size[1]
        h  == image.size[2]
        tw == size[1]
        th == size[2]
    IN  IF h = 0 \/ th = 0 THEN Raise("ZeroDivisionError")
        ELSE IF w * th = tw * h THEN ImageResize(image, size)
        ELSE IF RatioGreater(w, h, tw, th)
        THEN IF w = 0 THEN Raise("ZeroDivisionError")
             ELSE ImageResize(image, <<tw, RoundHalfEven(h * tw, w)>>)
        ELSE ImageResize(image, <<RoundHalfEven(w * th, h), th>>)

\* Image.new(mode, size): negative dimensions are rejected.
ImageNew(size) ==
    IF size[1] < 0 \/ size[2] < 0 THEN Raise("ValueError")
    ELSE Return(size, <<"blank">>)

resize_image(image, target_size) ==
    IF image.size = target_size
    THEN Return(image.size, image.pixels)          \* image.copy()
    ELSE LET contained == ImageOpsContain(image, target_size)
         IN  IF contained.raised THEN contained
             ELSE IF contained.size = target_size THEN contained
             ELSE LET background == ImageNew(target_size)
                  IN  IF background.raised THEN background
                      ELSE \* background.paste(contained, (offset_x, offset_y))
                           Return(target_size, Append(contained.pixels, "padded"))


(***************************************************************************)
(* Files.  A path is the tuple of its components.  Input files are fixed:  *)
(* the source "scene.png" and the mask "mask.png" exist and decode,        *)
(* "corrupt.png" exists and does not decode, every other input is missing. *)
(* An output entry is [kind, size, pixels, quality] with kind "absent",    *)
(* "dir", "file" (a completely written image) or "partial" (a file opened  *)
(* for writing whose encoding did not finish).                             *)
(***************************************************************************)
None == "None"

SourcePixels == <<"src">>

Parent(path) == SubSeq(path, 1, Len(path) - 1)

SourceSize == <<40, 20>>

InputKind(path) ==
    IF path \in {<<"in", "scene.png">>, <<"in", "pixel.png">>, <<"in", "mask.png">>}
    THEN "image"
    ELSE IF path = <<"in", "corrupt.png">> THEN "corrupt"
    ELSE "missing"

\* The size of the image in an input file: "pixel.png" is a single pixel.
InputSize(path) == IF path = <<"in", "pixel.png">> THEN <<1, 1>> ELSE SourceSize

OutPaths == {<<"out", "a.jpg">>, <<"out", "b.jpg">>, <<"out", "a.jpg", "b.jpg">>}

Absent == [kind |-> "absent", size |-> <<0, 0>>, pixels |-> <<>>, quality |-> 0]

Directory == [kind |-> "dir", size |-> <<0, 0>>, pixels |-> <<>>, quality |-> 0]

Partial == [kind |-> "partial", size |-> <<0, 0>>, pixels |-> <<>>, quality |-> 0]

DEFAULT_QUALITY == 95

OldFile == [kind |-> "file", size |-> SourceSize, pixels |-> <<"old">>,
            quality |-> DEFAULT_QUALITY]

IsFile(entry) == entry.kind \in {"file", "partial"}

\* load_image(filepath)
load_image(filepath) ==
    IF InputKind(filepath) = "missing" THEN Raise("FileNotFoundError")
    ELSE IF InputKind(filepath) = "corrupt" THEN Raise("Exception")
    ELSE Return(InputSize(filepath), SourcePixels)

\* os.makedirs(dirname, exist_ok=True) on the output tree: [raised, exc, files].
MakeDirs(dir, files) ==
    IF dir \notin DOMAIN files
    THEN [raised |-> FALSE, exc |-> "", files |-> files]
    ELSE IF IsFile(files[dir])
    THEN [raised |-> TRUE, exc |-> "FileExistsError", files |-> files]
    ELSE [raised |-> FALSE, exc |-> "", files |-> [files EXCEPT ![dir] = Directory]]

\* What the save capability can do with a buffer it is asked to write:
\*   "ok"            the file is opened, encoded and closed;
\*   "open_error"    the file cannot be opened, or its format is refused
\*                   before it is opened: nothing is written;
\*   "write_error"   the file is opened for writing (created or truncated)
\*                   and the encoder or a write fails; the library leaves it;
\*   "write_cleanup" as "write_error", and the library removes the file if
\*                   this call created it.
SaveOutcomes == {"ok", "open_error", "write_error", "write_cleanup"}

\* The outcomes possible for this buffer and this path: a directory cannot be
\* opened for writing, and an empty image cannot be encoded.
SaveOutcomesFor(image, filepath, files) ==
    IF files[filepath].kind = "dir" THEN {"open_error"}
    ELSE IF image.size[1] < 1 \/ image.size[2] < 1
    THEN SaveOutcomes \ {"ok"}
    ELSE SaveOutcomes

\* save_image(image, filepath, quality): [raised, exc, files].
save_image(image, filepath, quality, files, outcome) ==
    LET made == MakeDirs(Parent(filepath), files)
    IN  IF made.raised THEN made
        ELSE IF outcome = "ok"
        THEN [raised |-> FALSE, exc |-> "",
              files |-> [made.files EXCEPT ![filepath] =
                            [kind |-> "file", size |-> image.size,
                             pixels |-> image.pixels, quality |-> quality]]]
        ELSE IF outcome = "open_error"
        THEN [raised |-> TRUE, exc |-> "OSError", files |-> made.files]
        ELSE IF outcome = "write_cleanup" /\ made.files[filepath].kind = "absent"
        THEN [raised |-> TRUE, exc |-> "OSError", files |-> made.files]
        ELSE [raised |-> TRUE, exc |-> "OSError",
              files |-> [made.files EXCEPT ![filepath] = Partial]]

(***************************************************************************)
(* Operations.  An operation of a manifest is a mapping, modelled as a     *)
(* record whose fields are the keys present; an entry of the list that is  *)
(* not a mapping is the record [scalar |-> value].                         *)
(***************************************************************************)
ASPECT_RATIO_PRESETS ==
    [dci_4k |-> <<4096, 2160>>, square_1080 |-> <<1080, 1080>>,
     vertical_story |-> <<1080, 1920>>, ultrawide |-> <<5120, 2160>>]

IsMapping(operation) == "scalar" \notin DOMAIN operation

\* operation.get(key)
Get(operation, key) == IF key \in DOMAIN operation THEN operation[key] ELSE None

\* A resolver that falls back to a fixed target instead of raising.
ResolveResizeDefaultMutant(operation, presets) ==
    IF "preset" \in DOMAIN operation /\ operation.preset \in DOMAIN presets
    THEN [raised |-> FALSE, exc |-> "", size |-> presets[operation.preset]]
    ELSE IF "width" \in DOMAIN operation /\ "height" \in DOMAIN operation
    THEN [raised |-> FALSE, exc |-> "", size |-> <<operation.width, operation.height>>]
    ELSE [raised |-> FALSE, exc |-> "", size |-> <<4, 2>>]

\* _resolve_resize_target(operation, presets): [raised, exc, size].
_resolve_resize_target(operation, presets) ==
    IF "preset" \in DOMAIN operation
    THEN IF operation.preset \notin DOMAIN presets
         THEN [raised |-> TRUE, exc |-> "ValueError", size |-> <<0, 0>>]
         ELSE [raised |-> FALSE, exc |-> "", size |-> presets[operation.preset]]
    ELSE IF "width" \in DOMAIN operation /\ "height" \in DOMAIN operation
    THEN [raised |-> FALSE, exc |-> "", size |-> <<operation.width, operation.height>>]
    ELSE [raised |-> TRUE, exc |-> "ValueError", size |-> <<0, 0>>]

\* apply_crop_preset(image, preset, offset=offset): image.crop of the box.
apply_crop_preset(image, preset, offset) ==
    IF preset \notin DOMAIN CROP_PRESETS THEN Raise("KeyError")
    ELSE LET box == crop_to_aspect(image.size, CROP_PRESETS[preset], offset)
         IN  Return(<<box[3] - box[1], box[4] - box[2]>>,
                    IF box = <<0, 0, image.size[1], image.size[2]>>
                    THEN image.pixels ELSE Append(image.pixels, "cropped"))

\* _resolve_mask(mask_reference, base_image_path): a relative reference is
\* resolved against the directory of the source image.
_resolve_mask(mask_reference, base_image_path) ==
    LET mask_path == Append(Parent(base_image_path), mask_reference)
    IN  IF InputKind(mask_path) = "missing" THEN Raise("FileNotFoundError")
        ELSE IF InputKind(mask_path) = "corrupt" THEN Raise("OSError")
        ELSE Return(InputSize(mask_path), <<"mask">>)

\* numpy broadcasting of one axis: equal lengths, or one of them 1; 0 is "no".
Broadcast(a, b) == IF a = b THEN a ELSE IF a = 1 THEN b ELSE IF b = 1 THEN a ELSE 0

\* inpaint_with_mask(image, mask, ...): base_arr * (1.0 - blend) +
\* blurred_arr * blend with base_arr of shape (h, w, 3) and blend of shape
\* (mask h, mask w, 1); the mask is never resampled.
inpaint_with_mask(image, mask) ==
    LET w == Broadcast(image.size[1], mask.size[1])
        h == Broadcast(image.size[2], mask.size[2])
    IN  IF (w = 0 /\ image.size[1] # mask.size[1]) \/ (h = 0 /\ image.size[2] # mask.size[2])
        THEN Raise("ValueError")
        ELSE Return(<<w, h>>, Append(image.pixels, "inpainted"))

\* The keys of a grade operation that apply_grading reads.
GradingKeys == {"exposure", "contrast", "saturation", "temperature_shift",
                "shadow_lift", "highlight_lift", "micro_contrast", "local_contrast"}

\* The final `else` of the dispatch: raise ValueError("Unsupported operation type").
UnsupportedIgnoredMutant(image, op_type) == Return(image.size, image.pixels)

UnsupportedOperation(image, op_type) == Raise("ValueError")

\* One operation of the list applied to the working buffer: the body of the
\* loop of process_variant.
ApplyOperation(image, operation, input_path) ==
    IF ~IsMapping(operation) THEN Raise("ValueError")
    ELSE LET op_type == Get(operation, "type")
         IN  IF op_type = "resize"
             THEN LET target == _resolve_resize_target(operation, ASPECT_RATIO_PRESETS)
                  IN  IF target.raised THEN Raise(target.exc)
                      ELSE resize_image(image, target.size)
             ELSE IF op_type = "crop"
             THEN IF Get(operation, "preset") \in {None, ""} THEN Raise("ValueError")
                  ELSE apply_crop_preset(image, operation.preset,
                                         IF "offset" \in DOMAIN operation
                                         THEN operation.offset ELSE NoOffset)
             ELSE IF op_type = "grade"
             THEN IF DOMAIN operation \cap GradingKeys = {}
                  THEN Return(image.size, image.pixels)
                  ELSE Return(image.size, Append(image.pixels, "graded"))
             ELSE IF op_type = "inpaint"
             THEN IF Get(operation, "mask") = None THEN Raise("ValueError")
                  ELSE LET mask_image == _resolve_mask(operation.mask, input_path)
                       IN  IF mask_image.raised THEN mask_image
                           ELSE inpaint_with_mask(image, mask_image)
             ELSE IF op_type \in {"material_enhance", "enhance_materials"}
             THEN Return(image.size, Append(image.pixels, "enhanced"))
             ELSE UnsupportedOperation(image, op_type)

\* The override of a scan from the front of the list.
FirstQualityMutant(ops, k) ==
    LET carrying == {i \in 1..k : "quality" \in DOMAIN ops[i]}
    IN  IF carrying = {} THEN [override |-> FALSE, quality |-> DEFAULT_QUALITY]
        ELSE [override |-> TRUE,
              quality |-> ops[CHOOSE i \in carrying : \A j \in carrying : i <= j].quality]

\* The quality override of process_variant: the "quality" of the last
\* operation that has the key; [override, quality].
RECURSIVE LastQuality(_, _)
LastQuality(ops, k) ==
    IF k = 0 THEN [override |-> FALSE, quality |-> DEFAULT_QUALITY]
    ELSE IF "quality" \in DOMAIN ops[k]
    THEN [override |-> TRUE, quality |-> ops[k].quality]
    ELSE LastQuality(ops, k - 1)

\* `except Exception`: every exception class of the model derives from it.
ExceptionClasses == {"Exception", "FileNotFoundError", "FileExistsError", "OSError",
                     "ValueError", "KeyError", "TypeError", "ZeroDivisionError"}

CatchesOnlyValueErrorMutant(exc) == exc = "ValueError"

Catches(exc) == exc \in ExceptionClasses

\* The operation the loop `for operation in ops` yields at its k-th turn.
OperationAtReversedMutant(ops, k) == ops[Len(ops) + 1 - k]

OperationAt(ops, k) == ops[k]

\* The loop of process_variant from its k-th turn on.
RECURSIVE RunOperations(_, _, _, _)
RunOperations(image, ops, k, input_path) ==
    IF k > Len(ops) THEN Return(image.size, image.pixels)
    ELSE LET r == ApplyOperation(image, OperationAt(ops, k), input_path)
         IN  IF r.raised THEN r
             ELSE RunOperations([size |-> r.size, pixels |-> r.pixels], ops, k + 1,
                                input_path)

\* The try block of process_variant up to the end of the loop: the buffer
\* to save, or the exception raised by the load or by an operation.
LoadAndRun(task) ==
    LET loaded == load_image(task.source)
    IN  IF loaded.raised THEN loaded
        ELSE RunOperations([size |-> loaded.size, pixels |-> loaded.pixels],
                           task.operations, 1, task.source)

\* The rest of process_variant, given the outcome `ran` of LoadAndRun and the
\* outcome `saved` of save_image (used only if the save is reached).
VariantResult(files, ran, saved) ==
    IF ran.raised
    THEN [success |-> FALSE, raised |-> ~Catches(ran.exc), saving |-> FALSE,
          files |-> files]
    ELSE [success |-> ~saved.raised, raised |-> saved.raised /\ ~Catches(saved.exc),
          saving |-> TRUE, files |-> saved.files]

SaveBuffer(task, files, outcome, ran) ==
    save_image([size |-> ran.size, pixels |-> ran.pixels], task.output,
               LastQuality(task.operations, Len(task.operations)).quality, files, outcome)

SaveVariant(task, files, outcome, ran) ==
    VariantResult(files, ran, SaveBuffer(task, files, outcome, ran))

\* process_variant as one call: [success, raised, saving, files].  `saving`
\* is whether save_image was reached, `raised` whether an exception left
\* process_variant.
process_variant(task, files, outcome) ==
    SaveVariant(task, files, outcome, LoadAndRun(task))

\* The outcomes of the save capability possible in process_variant(task):
\* those of the buffer it saves, or just "ok" when the save is not reached.
SaveOutcomesAfter(task, files, ran) ==
    IF ran.raised THEN {"ok"}
    ELSE SaveOutcomesFor([size |-> ran.size, pixels |-> ran.pixels], task.output, files)

SaveOutcomesOf(task, files) == SaveOutcomesAfter(task, files, LoadAndRun(task))

(***************************************************************************)
(* Grading.  A grading mapping is the sequence of its items <<key, value>> *)
(* in insertion order, keys distinct.  A value is <<>> for Python's None   *)
(* and <<k>> for the number k/GradeDen.  An image is [size, pixels]; a     *)
(* primitive that changes the pixels appends <<primitive, parameter>> to   *)
(* `pixels`, so `pixels` is the expression that computes the buffer from   *)
(* the source.  Factors and amounts are in units of 1/GradeDen.            *)
(***************************************************************************)
NoValue == <<>>

\* grading.get(key)
GradingGet(grading, key) ==
    IF \E i \in 1..Len(grading) : grading[i][1] = key
    THEN grading[CHOOSE i \in 1..Len(grading) : grading[i][1] = key][2]
    ELSE NoValue

\* Python truthiness of a value: None and 0 are falsy.
Truthy(value) == value # NoValue /\ value # <<0>>

\* _resolve_enhance_factor(value)
ResolveEnhanceFactorUnclampedMutant(value) ==
    IF -GradeDen <= value /\ value <= GradeDen THEN GradeDen + value
    ELSE value

_resolve_enhance_factor(value) ==
    IF -GradeDen <= value /\ value <= GradeDen THEN GradeDen + value
    ELSE IF value < 0 THEN 0
    ELSE value

\* The result of an operation that computes new pixels from those of
\* `image`: the same image with `mark` added to its pixel expression.
Mark(image, mark) == [image EXCEPT !.pixels = Append(@, mark)]

\* image.mode: an image record without the field is an RGB image.
ModeOf(image) == IF "mode" \in DOMAIN image THEN image.mode ELSE "RGB"

\* image.convert(mode)
Convert(image, mode) ==
    IF "mode" \in DOMAIN image
    THEN [image EXCEPT !.mode = mode, !.pixels = Append(@, <<"convert", mode>>)]
    ELSE Mark(image, <<"convert", mode>>)

\* The alpha channel _split_alpha returns: the channel "A" of an RGBA image,
\* None for every other mode.
NoAlpha == "None"

SplitAlphaChannel(image) == IF ModeOf(image) = "RGBA" THEN "A" ELSE NoAlpha

\* The RGB image _split_alpha returns (_ensure_rgb for the modes without
\* alpha handling: a copy of an RGB image, image.convert("RGB") otherwise).
_split_alpha(image) ==
    IF ModeOf(image) = "RGB" THEN image ELSE Convert(image, "RGB")

\* _recombine_alpha(rgb, alpha, original_mode)
_recombine_alpha(rgb, alpha, original_mode) ==
    IF alpha = NoAlpha
    THEN IF original_mode = "RGB" THEN rgb ELSE Convert(rgb, original_mode)
    ELSE IF original_mode = "RGBA"
    THEN Mark(Convert(rgb, "RGBA"), <<"putalpha", alpha>>)
    ELSE Convert(Mark(Convert(rgb, "RGBA"), <<"putalpha", alpha>>), original_mode)

\* ImageEnhance.<enhancer>(image).enhance(factor)
Enhance(image, enhancer, factor) == Mark(image, <<enhancer, factor>>)

\* apply_temperature_shift(image, mired_shift): the parameter recorded is
\* the gain 1 + mired_shift/100 clamped to [0.1, 10.0], in units of
\* 1/(100*GradeDen).
apply_temperature_shift(image, mired_shift) ==
    IF mired_shift = 0 THEN image
    ELSE _recombine_alpha(
             Mark(_split_alpha(image),
                  <<"temperature_shift",
                    Max2(10 * GradeDen, Min2(1000 * GradeDen, 100 * GradeDen + mired_shift))>>),
             SplitAlphaChannel(image), ModeOf(image))

\* apply_shadow_lift(image, amount): amount clamped to [0, 1].
apply_shadow_lift(image, amount) ==
    IF amount = 0 THEN image
    ELSE _recombine_alpha(
             Mark(_split_alpha(image), <<"shadow_lift", Max2(0, Min2(GradeDen, amount))>>),
             SplitAlphaChannel(image), ModeOf(image))

\* apply_highlight_lift(image, amount): amount clamped to [0, 1].
apply_highlight_lift(image, amount) ==
    IF amount = 0 THEN image
    ELSE _recombine_alpha(
             Mark(_split_alpha(image), <<"highlight_lift", Max2(0, Min2(GradeDen, amount))>>),
             SplitAlphaChannel(image), ModeOf(image))

\* inpaint_with_mask(image, mask, blur_radius, feather_radius, strength) on
\* an image and a mask of the same size: `mask` is the row of bytes of the
\* mask in mode L, `strength` the strength in halves, `blur` the weights
\* that the two radii give the blurs.
InpaintWithMask(image, mask, strength, blur) ==
    _recombine_alpha(
        Mark(_split_alpha(image), <<"inpaint", mask, Max2(0, Min2(2, strength)), blur>>),
        SplitAlphaChannel(image), ModeOf(image))

\* percent = min(500, max(0, int((amount - 1.0) * 200)))
UnsharpPercent(amount) ==
    Min2(500, Max2(0, ((amount - GradeDen) * 200) \div GradeDen))

\* apply_local_contrast(image, amount): a copy at 1.0; above 1.0 an unsharp
\* mask of `percent`, or the copy when percent is 0; below 1.0 a blend with
\* the blurred copy by the factor 1 - amount clamped to [0, 1].
apply_local_contrast(image, amount) ==
    IF amount = GradeDen THEN image
    ELSE IF amount > GradeDen
    THEN IF UnsharpPercent(amount) = 0 THEN image
         ELSE Mark(image, <<"local_contrast", "UnsharpMask", UnsharpPercent(amount)>>)
    ELSE Mark(image, <<"local_contrast", "blend", Max2(0, Min2(GradeDen, GradeDen - amount))>>)

\* percent = min(500, max(0, int((micro - 1.0) * 250)))
MaterialPercent(micro) == Min2(500, Max2(0, ((micro - GradeDen) * 250) \div GradeDen))

\* The micro-contrast step of enhance_material_definition.
MaterialMicroContrast(result, micro_contrast) ==
    IF micro_contrast = GradeDen THEN result
    ELSE IF Max2(0, micro_contrast) > GradeDen
    THEN IF MaterialPercent(Max2(0, micro_contrast)) # 0
         THEN Mark(result, <<"UnsharpMask", MaterialPercent(Max2(0, micro_contrast))>>)
         ELSE result
    ELSE Mark(result, <<"blend", Max2(0, Min2(GradeDen, GradeDen - Max2(0, micro_contrast)))>>)

\* One of the three enhancers of enhance_material_definition, skipped at 1.0.
MaterialEnhance(result, enhancer, factor) ==
    IF factor = GradeDen THEN result ELSE Enhance(result, enhancer, Max2(0, factor))

\* enhance_material_definition(image, clarity=, micro_contrast=, depth=, sheen=)
enhance_material_definition(image, clarity, micro_contrast, depth, sheen) ==
    _recombine_alpha(
        MaterialEnhance(
            MaterialEnhance(
                MaterialMicroContrast(
                    MaterialEnhance(_split_alpha(image), "Sharpness", clarity),
                    micro_contrast),
                "Contrast", depth),
            "Color", sheen),
        SplitAlphaChannel(image), ModeOf(image))

ApplyGradingSaturationFirstMutant(image, grading) ==
    IF Len(grading) = 0 THEN image
    ELSE LET exposure == GradingGet(grading, "exposure")
             r1 == IF exposure # NoValue
                   THEN Enhance(image, "Brightness", GradeDen + exposure[1]) ELSE image
             saturation == GradingGet(grading, "saturation")
             r2 == IF saturation # NoValue
                   THEN Enhance(r1, "Color", _resolve_enhance_factor(saturation[1])) ELSE r1
             contrast == GradingGet(grading, "contrast")
             r3 == IF contrast # NoValue
                   THEN Enhance(r2, "Contrast", _resolve_enhance_factor(contrast[1])) ELSE r2
             temp_shift == GradingGet(grading, "temperature_shift")
             r4 == IF Truthy(temp_shift) THEN apply_temperature_shift(r3, temp_shift[1]) ELSE r3
             shadow_lift == GradingGet(grading, "shadow_lift")
             r5 == IF Truthy(shadow_lift) THEN apply_shadow_lift(r4, shadow_lift[1]) ELSE r4
             highlight_lift == GradingGet(grading, "highlight_lift")
             r6 == IF Truthy(highlight_lift)
                   THEN apply_highlight_lift(r5, highlight_lift[1]) ELSE r5
             micro_contrast == IF GradingGet(grading, "micro_contrast") # NoValue
                               THEN GradingGet(grading, "micro_contrast")
                               ELSE GradingGet(grading, "local_contrast")
         IN  IF micro_contrast # NoValue
             THEN apply_local_contrast(r6, micro_contrast[1]) ELSE r6

\* apply_grading(image, grading): the primitives in the order of the source
\* text, each on the result of the one before.
apply_grading(image, grading) ==
    IF Len(grading) = 0 THEN image
    ELSE LET exposure == GradingGet(grading, "exposure")
             r1 == IF exposure # NoValue
                   THEN Enhance(image, "Brightness", GradeDen + exposure[1]) ELSE image
             contrast == GradingGet(grading, "contrast")
             r2 == IF contrast # NoValue
                   THEN Enhance(r1, "Contrast", _resolve_enhance_factor(contrast[1])) ELSE r1
             saturation == GradingGet(grading, "saturation")
             r3 == IF saturation # NoValue
                   THEN Enhance(r2, "Color", _resolve_enhance_factor(saturation[1])) ELSE r2
             temp_shift == GradingGet(grading, "temperature_shift")
             r4 == IF Truthy(temp_shift) THEN apply_temperature_shift(r3, temp_shift[1]) ELSE r3
             shadow_lift == GradingGet(grading, "shadow_lift")
             r5 == IF Truthy(shadow_lift) THEN apply_shadow_lift(r4, shadow_lift[1]) ELSE r4
             highlight_lift == GradingGet(grading, "highlight_lift")
             r6 == IF Truthy(highlight_lift)
                   THEN apply_highlight_lift(r5, highlight_lift[1]) ELSE r5
             micro_contrast == IF GradingGet(grading, "micro_contrast") # NoValue
                               THEN GradingGet(grading, "micro_contrast")
                               ELSE GradingGet(grading, "local_contrast")
         IN  IF micro_contrast # NoValue
             THEN apply_local_contrast(r6, micro_contrast[1]) ELSE r6

(***************************************************************************)
(* The bytes of an image.  A pixel is <<r, g, b, a>>, each 0..255 (r = g = *)
(* b for the modes L and LA, a = 255 for the modes without alpha).  The    *)
(* bytes of an image are those of the source with the marks of its pixel   *)
(* expression applied in turn; the marks below are those whose arithmetic  *)
(* is modelled.  The arithmetic is that of the float arrays of the source, *)
(* as exact fractions truncated by astype(np.uint8).                       *)
(***************************************************************************)
\* Image.convert("L") of an RGB pixel.
Luma(r, g, b) == (r * 19595 + g * 38470 + b * 7471 + 32768) \div 65536

\* arr *= gains; clip to [0, 255]: gain in units of 1/(100*GradeDen).
GainValue(v, gain) == Min2(255, (v * gain) \div (100 * GradeDen))

\* blue_gain = 1.0 / gain
InverseGainValue(v, gain) == Min2(255, (v * 100 * GradeDen) \div gain)

\* shadow_mask = 1 - clip(arr / 0.5); lifted = arr + amount * shadow_mask
ShadowValue(v, amount) ==
    IF 2 * v < 255 THEN Min2(255, v + (amount * (255 - 2 * v)) \div GradeDen) ELSE v

\* highlight_mask = clip((arr - 0.5) / 0.5);
\* lifted = arr + amount * highlight_mask * (1 - arr)
HighlightValue(v, amount) ==
    IF 2 * v > 255
    THEN Min2(255, v + (amount * (2 * v - 255) * (255 - v)) \div (GradeDen * 255))
    ELSE v

ComputableMarks == {"convert", "putalpha", "temperature_shift", "shadow_lift",
                    "highlight_lift", "inpaint"}

\* The pixel `px` after `mark`; `alpha` is the byte of the alpha channel
\* that putalpha writes.
MarkPixel(mark, px, alpha) ==
    CASE mark[1] = "convert" ->
             IF mark[2] \in {"L", "LA"}
             THEN <<Luma(px[1], px[2], px[3]), Luma(px[1], px[2], px[3]),
                    Luma(px[1], px[2], px[3]), 255>>
             ELSE <<px[1], px[2], px[3], 255>>
      [] mark[1] = "putalpha" -> <<px[1], px[2], px[3], alpha>>
      [] mark[1] = "temperature_shift" ->
             <<GainValue(px[1], mark[2]), px[2], InverseGainValue(px[3], mark[2]), px[4]>>
      [] mark[1] = "shadow_lift" ->
             <<ShadowValue(px[1], mark[2]), ShadowValue(px[2], mark[2]),
               ShadowValue(px[3], mark[2]), px[4]>>
      [] mark[1] = "highlight_lift" ->
             <<HighlightValue(px[1], mark[2]), HighlightValue(px[2], mark[2]),
               HighlightValue(px[3], mark[2]), px[4]>>

\* ImageFilter.GaussianBlur on a row of two values: the kernel is
\* non-negative and sums to one and the border is replicated, so each value
\* becomes an average of itself and its neighbour.  `weight`, of GradeDen,
\* is the share of the value itself; it depends on the radius, and is
\* GradeDen when nothing is blurred.
GaussianBlur(values, weight) ==
    [i \in 1..Len(values) |->
        (weight * values[i] + (GradeDen - weight) * values[Len(values) + 1 - i]
            + GradeDen \div 2) \div GradeDen]

(***************************************************************************)
(* numpy float32 arithmetic on non-negative values.  A float32 is          *)
(* <<m, e>>, the value m * 2^e with 2^23 <= m < 2^24, or <<0, 0>>; every   *)
(* operation rounds its exact result to the nearest float32, ties to even. *)
(* The integers of the intermediate steps stay below 2^31.                 *)
(***************************************************************************)
F32Zero == <<0, 0>>

F32One == <<2^23, -23>>

RECURSIVE BitLen(_)
BitLen(n) == IF n = 0 THEN 0 ELSE 1 + BitLen(n \div 2)

\* n / 2^sh rounded to the nearest integer, ties to even; `sticky` says
\* that the exact value is above n by less than one.
RoundShift(n, sh, sticky) ==
    IF (n % 2^sh > 2^(sh - 1))
           \/ (n % 2^sh = 2^(sh - 1) /\ (sticky \/ (n \div 2^sh) % 2 = 1))
    THEN n \div 2^sh + 1
    ELSE n \div 2^sh

\* The float32 nearest to n * 2^e (plus less than 2^e if `sticky`).
F32Normalise(n, e, sticky) ==
    IF n = 0 THEN F32Zero
    ELSE IF BitLen(n) > 24
    THEN IF RoundShift(n, BitLen(n) - 24, sticky) = 2^24
         THEN <<2^23, e + BitLen(n) - 23>>
         ELSE <<RoundShift(n, BitLen(n) - 24, sticky), e + BitLen(n) - 24>>
    ELSE <<n * 2^(24 - BitLen(n)), e - (24 - BitLen(n))>>

\* Long division: q * 2^e is the quotient so far and r the remainder.
RECURSIVE F32LongDiv(_, _, _, _)
F32LongDiv(q, r, e, den) ==
    IF q >= 2^25 THEN F32Normalise(q, e, r # 0)
    ELSE F32LongDiv(2 * q + (2 * r) \div den, (2 * r) % den, e - 1, den)

\* float32(num) / float32(den) for integers below 2^24
F32Ratio(num, den) ==
    IF num = 0 THEN F32Zero ELSE F32LongDiv(num \div den, num % den, 0, den)

\* x * 0.5
F32Half(x) == IF x[1] = 0 THEN F32Zero ELSE <<x[1], x[2] - 1>>

\* 1.0 - x, for 2^-7 <= x <= 1 or x = 0
F32OneMinus(x) ==
    IF x[1] = 0 THEN F32One ELSE F32Normalise(2^(-x[2]) - x[1], x[2], FALSE)

\* v * x for an integer 0 <= v <= 255: the product of v and the mantissa is
\* a * 2^12 + b, computed from the two halves of the mantissa.
F32MulParts(a, b, e) ==
    IF BitLen(a) <= 12 THEN F32Normalise(a * 2^12 + b, e, FALSE)
    ELSE IF RoundShift(b, BitLen(a) - 12, FALSE) + a * 2^(24 - BitLen(a)) = 2^24
    THEN <<2^23, e + BitLen(a) - 11>>
    ELSE <<RoundShift(b, BitLen(a) - 12, FALSE) + a * 2^(24 - BitLen(a)), e + BitLen(a) - 12>>

F32MulByte(v, x) ==
    IF v = 0 \/ x[1] = 0 THEN F32Zero
    ELSE F32MulParts(v * (x[1] \div 2^12) + (v * (x[1] % 2^12)) \div 2^12,
                     (v * (x[1] % 2^12)) % 2^12, x[2])

\* x + y for x[2] >= y[2], with six guard bits
F32AddOrdered(x, y) ==
    IF x[2] - y[2] <= 6
    THEN F32Normalise(x[1] * 2^6 + y[1] * 2^(6 - (x[2] - y[2])), x[2] - 6, FALSE)
    ELSE IF x[2] - y[2] >= 31
    THEN F32Normalise(x[1] * 2^6, x[2] - 6, TRUE)
    ELSE F32Normalise(x[1] * 2^6 + y[1] \div 2^(x[2] - y[2] - 6), x[2] - 6,
                      y[1] % 2^(x[2] - y[2] - 6) # 0)

F32Add(x, y) ==
    IF x[1] = 0 THEN y
    ELSE IF y[1] = 0 THEN x
    ELSE IF x[2] >= y[2] THEN F32AddOrdered(x, y)
    ELSE F32AddOrdered(y, x)

\* astype(np.uint8) of a value below 2^31
F32Trunc(x) ==
    IF x[2] >= 0 THEN x[1] * 2^x[2]
    ELSE IF -x[2] > 30 THEN 0
    ELSE x[1] \div 2^(-x[2])

\* blend = mask_arr / 255.0 * strength: `strength` is the clamped strength
\* in halves, 0 for 0.0, 1 for 0.5 and 2 for 1.0.
InpaintBlend(mask, strength) ==
    IF strength = 0 THEN F32Zero
    ELSE IF strength = 1 THEN F32Half(F32Ratio(mask, 255))
    ELSE F32Ratio(mask, 255)

\* base_arr * (1.0 - blend) + blurred_arr * blend, clipped to [0, 255],
\* then astype(uint8).
InpaintFilled(base, blurred, blend) ==
    Min2(255, F32Trunc(F32Add(F32MulByte(base, F32OneMinus(blend)),
                              F32MulByte(blurred, blend))))

InpaintValue(base, blurred, mask, strength) ==
    InpaintFilled(base, blurred, InpaintBlend(mask, strength))

\* The compositing of inpaint_with_mask on the bytes `data`: `mask` is the
\* row of bytes of the mask, blur[1] and blur[2] are the weights of the blur
\* of the image and of the feathering of the mask.
InpaintData(data, mask, strength, blur) ==
    LET feathered == GaussianBlur(mask, blur[2])
        r == GaussianBlur([i \in 1..Len(data) |-> data[i][1]], blur[1])
        g == GaussianBlur([i \in 1..Len(data) |-> data[i][2]], blur[1])
        b == GaussianBlur([i \in 1..Len(data) |-> data[i][3]], blur[1])
    IN  [i \in 1..Len(data) |->
            <<InpaintValue(data[i][1], r[i], feathered[i], strength),
              InpaintValue(data[i][2], g[i], feathered[i], strength),
              InpaintValue(data[i][3], b[i], feathered[i], strength),
              data[i][4]>>]

\* The bytes `cur` after `mark`; `src` are the bytes of the source, whose
\* alpha channel putalpha writes back.
MarkData(mark, cur, src) ==
    IF mark[1] = "inpaint" THEN InpaintData(cur, mark[2], mark[3], mark[4])
    ELSE [i \in 1..Len(cur) |-> MarkPixel(mark, cur[i], src[i][4])]

\* The source bytes `data` after the first k entries of the pixel expression.
RECURSIVE DataAfter(_, _, _)
DataAfter(pixels, k, data) ==
    IF k <= Len(SourcePixels) THEN data
    ELSE MarkData(pixels[k], DataAfter(pixels, k - 1, data), data)

Computable(image) ==
    \A k \in (Len(SourcePixels) + 1)..Len(image.pixels) : image.pixels[k][1] \in ComputableMarks

\* The bytes of `image`, an image computed from the source of bytes `data`.
ImageData(image, data) == DataAfter(image.pixels, Len(image.pixels), data)

(***************************************************************************)
(* Inputs of the state machines, and the resting value of each group of    *)
(* variables (a specification leaves the groups it does not use at rest).  *)
(***************************************************************************)
ImageSizes == (1..MaxDim) \X (1..MaxDim)

PresetAspects == {CROP_PRESETS[p] : p \in DOMAIN CROP_PRESETS}

Aspects == PresetAspects \cup ((1..MaxAspect) \X (1..MaxAspect))

TargetDims == (-1)..MaxDim

TargetSizes == TargetDims \X TargetDims

NoCrop == [called |-> FALSE, aspect |-> <<1, 1>>, offset |-> NoOffset,
           box |-> <<0, 0, 0, 0>>]

NoResize == [called |-> FALSE, target |-> <<0, 0>>, raised |-> FALSE, exc |-> "",
             result |-> 0]

IdleCrop ==
    /\ cropImage = <<1, 1>>
    /\ cropCur = NoCrop

IdleResize ==
    /\ rsHeap = <<>>
    /\ rsCall = NoResize

\* The operations a manifest is built from: one well-formed operation of
\* every type, and one of every way an operation can fail.
OpCatalogue ==
    {[type |-> "resize", preset |-> "square_1080"],
     [type |-> "resize", width |-> 4, height |-> 2, quality |-> 80],
     [type |-> "resize", width |-> 4],
     [type |-> "crop", preset |-> "square_1x1", offset |-> <<OffDen, 0>>],
     [type |-> "crop", preset |-> "hero_21x9"],
     [type |-> "crop"],
     [type |-> "grade", exposure |-> 1, quality |-> 60],
     [type |-> "inpaint", mask |-> "mask.png"],
     [type |-> "inpaint", mask |-> "missing.png"],
     [type |-> "material_enhance"],
     [type |-> "sharpen"],
     [scalar |-> "grade"]}

OpLists == UNION {[1..n -> OpCatalogue] : n \in 0..MaxOps}

Sources == {<<"in", "scene.png">>, <<"in", "pixel.png">>, <<"in", "corrupt.png">>,
            <<"in", "ghost.png">>}

Tasks == [source : Sources, output : OutPaths, operations : OpLists]

\* The output tree before a run: outputs of an earlier run may exist, and
\* "out/a.jpg" may be a directory holding outputs.
InitialFiles ==
    {f \in [OutPaths -> {Absent, OldFile, Directory}] :
        /\ f[<<"out", "b.jpg">>] # Directory
        /\ f[<<"out", "a.jpg", "b.jpg">>] # Directory
        /\ (f[<<"out", "a.jpg", "b.jpg">>] # Absent) => (f[<<"out", "a.jpg">>] = Directory)}

NoImage == [size |-> <<0, 0>>, pixels |-> <<>>]

NoTask == [source |-> <<>>, output |-> <<>>, operations |-> <<>>]

NoFailure == [stage |-> "", op |-> 0, exc |-> ""]

NoSave == [invoked |-> 0, completed |-> FALSE, override |-> FALSE, quality |-> 0]

IdleVariant ==
    /\ pvTask = NoTask
    /\ pvPc = "idle"
    /\ pvOpIdx = 0
    /\ pvImage = NoImage
    /\ pvApplied = <<>>
    /\ pvFiles = <<>>
    /\ pvFiles0 = <<>>
    /\ pvFailed = NoFailure
    /\ pvSave = NoSave
    /\ pvReturn = "none"

\* The operation lists of the tasks of a run: no operation, a resize, the
\* grade-then-resize variant of the tests, a crop to the widest preset, an
\* inpaint whose mask file is missing, and an operation of an unknown type.
RunOpLists ==
    {<<>>,
     <<[type |-> "resize", width |-> 4, height |-> 2, quality |-> 80]>>,
     <<[type |-> "grade", exposure |-> 1], [type |-> "resize", preset |-> "square_1080"]>>,
     <<[type |-> "crop", preset |-> "hero_21x9"]>>,
     <<[type |-> "inpaint", mask |-> "missing.png"]>>,
     <<[type |-> "sharpen"]>>}

RunTasks == [source : {<<"in", "scene.png">>, <<"in", "pixel.png">>, <<"in", "ghost.png">>},
             output : OutPaths, operations : RunOpLists]

IdleRun ==
    /\ runPc = "idle"
    /\ nTasks = 0
    /\ runResults = <<>>
    /\ runFiles = <<>>
    /\ processed = 0
    /\ failed = 0
    /\ exitCode = -1

\* The values of a grading parameter: null, 0, 0.25, 2.0, -0.5 and -3.0.
GradeValues == {NoValue, <<0>>, <<GradeDen \div 4>>, <<2 * GradeDen>>,
                <<-(GradeDen \div 2)>>, <<-3 * GradeDen>>}

\* The grading mappings of at most MaxGradeKeys keys, in every insertion order.
GradeMappings ==
    {g \in UNION {[1..n -> GradingKeys \X GradeValues] : n \in 0..MaxGradeKeys} :
        \A i, j \in 1..Len(g) : i # j => g[i][1] # g[j][1]}

GradeImages == {[size |-> <<4, 4>>, pixels |-> SourcePixels]}

NoGrade == [called |-> FALSE, grading |-> <<>>, result |-> NoImage]

IdleGrade ==
    /\ gradeImage = NoImage
    /\ gradeCur = NoGrade

\* The colours of the source pixels of the primitives, and the greys.
Greys == {<<0, 0, 0>>, <<100, 100, 100>>, <<127, 127, 127>>, <<200, 200, 200>>,
          <<255, 255, 255>>}

Colours == Greys \cup {<<200, 100, 0>>, <<0, 100, 200>>}

\* The source images of the primitives: two pixels, in the modes RGB, RGBA,
\* L and LA; the images with an alpha channel are half transparent.
PrimSources ==
    {[mode |-> "RGB", data |-> <<<<c[1], c[2], c[3], 255>>, <<d[1], d[2], d[3], 255>>>>] :
        c \in Colours, d \in Colours}
    \cup
    {[mode |-> "RGBA", data |-> <<<<c[1], c[2], c[3], 128>>, <<d[1], d[2], d[3], 128>>>>] :
        c \in Colours, d \in Colours}
    \cup
    {[mode |-> "L", data |-> <<<<c[1], c[2], c[3], 255>>, <<d[1], d[2], d[3], 255>>>>] :
        c \in Greys, d \in Greys}
    \cup
    {[mode |-> "LA", data |-> <<<<c[1], c[2], c[3], 128>>, <<d[1], d[2], d[3], 128>>>>] :
        c \in Greys, d \in Greys}

\* Parameters of the primitives.  Each is one for which the float32
\* arithmetic of the source gives the bytes of the exact arithmetic.
TemperatureShifts == {0, 25 * GradeDen, 100 * GradeDen, -50 * GradeDen,
                      -95 * GradeDen, 1000 * GradeDen}

LiftAmounts == {0, GradeDen \div 1000, GradeDen \div 4, GradeDen \div 2}

ContrastAmounts == {GradeDen, GradeDen + GradeDen \div 250, 2 * GradeDen, 4 * GradeDen,
                    GradeDen \div 2, -GradeDen}

\* clarity, micro_contrast, depth, sheen: all neutral, the defaults of the
\* signature, a softening micro contrast, a micro contrast just above 1.0,
\* and the first and the last parameter alone.
MaterialParameters ==
    {<<GradeDen, GradeDen, GradeDen, GradeDen>>,
     <<(GradeDen * 12) \div 10, (GradeDen * 115) \div 100, (GradeDen * 105) \div 100,
       (GradeDen * 105) \div 100>>,
     <<GradeDen, GradeDen \div 2, GradeDen, GradeDen>>,
     <<GradeDen, GradeDen + GradeDen \div 500, GradeDen, GradeDen>>,
     <<2 * GradeDen, GradeDen, GradeDen, GradeDen \div 2>>}

\* Masks of the two-pixel images: the first pixel marked, the second pixel
\* marked, nothing marked, the first pixel marked in part.
InpaintMasks == {<<255, 0>>, <<0, 255>>, <<0, 0>>, <<65, 0>>}

\* Strengths in halves: -1.0, 0.0, 0.5, 1.0 and 2.0.
InpaintStrengths == {-2, 0, 1, 2, 4}

\* Weights of the blur of the image and of the feathering of the mask: no
\* blur, a narrow one and a wide one.
BlurWeights ==
    {GradeDen, (3 * GradeDen) \div 4, (GradeDen + 1) \div 2} \X {GradeDen, (3 * GradeDen) \div 4}

PrimGradings == {<<>>, <<<<"shadow_lift", <<GradeDen \div 4>>>>>>,
                 <<<<"temperature_shift", <<0>>>>>>}

NoPrimCall == [called |-> FALSE, primitive |-> "", parameters |-> <<>>, result |-> 0]

IdlePrim ==
    /\ primData = <<>>
    /\ primHeap = <<>>
    /\ primCall = NoPrimCall

(***************************************************************************)
(* iterate_tasks.  A path is the sequence of its components; an absolute   *)
(* path starts with the component "/".  A manifest, a render and a         *)
(* variant are mappings, which may lack any key.                           *)
(***************************************************************************)
IsAbsolute(path) == Len(path) > 0 /\ path[1] = "/"

\* pathlib's base / path: an absolute right operand replaces the left one.
PathJoin(base, path) == IF IsAbsolute(path) THEN path ELSE base \o path

CoercePathAlwaysJoinsMutant(path_str, base) == base \o path_str

_coerce_path(path_str, base) ==
    IF ~IsAbsolute(path_str) THEN PathJoin(base, path_str) ELSE path_str

\* mapping.get(key) where only the truth value of a missing entry matters:
\* a missing key, None, "" and [] are all falsy and are all written <<>>.
GetOrEmpty(mapping, key) == IF key \in DOMAIN mapping THEN mapping[key] ELSE <<>>

\* What a resumption of the generator ends with.
TaskYielded(task, pos) == [kind |-> "yield", exc |-> "", task |-> task, pos |-> pos]

TaskRaised(exc, pos) ==
    [kind |-> "raise", exc |-> exc,
     task |-> [source |-> <<>>, output |-> <<>>, operations |-> <<>>], pos |-> pos]

TaskStopped(pos) ==
    [kind |-> "stop", exc |-> "",
     task |-> [source |-> <<>>, output |-> <<>>, operations |-> <<>>], pos |-> pos]

\* variant.get("filename") or variant.get("name")
VariantFilename(variant) ==
    IF GetOrEmpty(variant, "filename") # <<>> THEN variant.filename
    ELSE GetOrEmpty(variant, "name")

\* if output_subdir: _coerce_path(output_subdir, output_dir) else output_dir
VariantTargetDir(variant, output_dir) ==
    IF GetOrEmpty(variant, "directory") # <<>>
    THEN _coerce_path(variant.directory, output_dir)
    ELSE output_dir

\* The body of `for variant in variants` for the variant at `pos`.
IterateVariant(source_path, variant, output_dir, pos) ==
    IF VariantFilename(variant) = <<>> THEN TaskRaised("ValueError", pos)
    ELSE TaskYielded([source |-> source_path,
                      output |-> PathJoin(VariantTargetDir(variant, output_dir),
                                          VariantFilename(variant)),
                      operations |-> GetOrEmpty(variant, "operations")], pos)

\* The body of `for render in ...` up to the first variant of the render.
IterateRender(render, input_dir, output_dir, r) ==
    IF GetOrEmpty(render, "source") = <<>> THEN TaskRaised("ValueError", <<r, 0>>)
    ELSE IF GetOrEmpty(render, "variants") = <<>> THEN TaskRaised("ValueError", <<r, 0>>)
    ELSE IterateVariant(_coerce_path(render.source, input_dir), render.variants[1],
                        output_dir, <<r, 1>>)

\* iterate_tasks(manifest, input_dir, output_dir), a generator, resumed
\* after the yield for the variant pos[2] of the render pos[1]: it runs to
\* its next yield, to a raise or to its end.
iterate_tasks(manifest, input_dir, output_dir, pos) ==
    LET renders == GetOrEmpty(manifest, "renders")
    IN  IF pos[1] >= 1 /\ pos[2] < Len(renders[pos[1]].variants)
        THEN IterateVariant(_coerce_path(renders[pos[1]].source, input_dir),
                            renders[pos[1]].variants[pos[2] + 1], output_dir,
                            <<pos[1], pos[2] + 1>>)
        ELSE IF pos[1] + 1 > Len(renders) THEN TaskStopped(pos)
        ELSE IterateRender(renders[pos[1] + 1], input_dir, output_dir, pos[1] + 1)

InputDir == <<"in">>

OutputDir == <<"out">>

\* Variants: named by filename; named by name (the filename is empty) in a
\* relative directory; with both names, in an absolute directory; unnamed.
VariantCatalogue ==
    {[filename |-> <<"web.jpg">>,
      operations |-> <<[type |-> "resize", width |-> 4, height |-> 2]>>],
     [filename |-> <<>>, name |-> <<"hero.png">>, directory |-> <<"social">>],
     [filename |-> <<"print.jpg">>, name |-> <<"n.jpg">>, directory |-> <<"/", "srv">>,
      operations |-> <<[type |-> "grade", exposure |-> 1], [type |-> "crop"]>>],
     [operations |-> <<[type |-> "crop", preset |-> "hero_21x9"]>>]}

VariantLists == UNION {[1..n -> VariantCatalogue] : n \in 0..MaxVariants}

\* Renders: a relative or an absolute source with any variants, and the
\* renders without a source, with an empty source, without variants.
Renders ==
    {[source |-> source, variants |-> variants] :
        source \in {<<"scene.png">>, <<"/", "mnt", "b.png">>}, variants \in VariantLists}
    \cup {[variants |-> <<[filename |-> <<"web.jpg">>]>>],
          [source |-> <<>>, variants |-> <<[filename |-> <<"web.jpg">>]>>],
          [source |-> <<"scene.png">>]}

\* Manifests: a list of renders, or no "renders" entry.
Manifests ==
    {[renders |-> renders] : renders \in UNION {[1..n -> Renders] : n \in 0..MaxRenders}}
    \cup {[version |-> 1]}

IdleTasks ==
    /\ taskManifest = [renders |-> <<>>]
    /\ taskPos = <<0, 0>>
    /\ taskPc = "idle"
    /\ taskYielded = <<>>

(***************************************************************************)
(* main(argv).  An argument list is written by what it holds: whether it   *)
(* was passed (`explicit`) or is the command line (argv is None), the flag *)
(* --legacy, the values of --manifest, --input-dir and --output-dir ("" if *)
(* the option is not given) and the number of positional arguments.        *)
(***************************************************************************)
DCI_4K_RESOLUTION == <<4096, 2160>>

INPUT_DIR == "data/new_input"

OUTPUT_DIR == "results/new_output"

DEFAULT_MANIFEST_PATH == "config/view_selects.yml"

\* len(sys.argv) == 1
NoArguments(argv) ==
    /\ ~argv.legacy
    /\ argv.manifest = ""
    /\ argv.input_dir = ""
    /\ argv.output_dir = ""
    /\ argv.positional = 0

\* An option of the parser: its value, or its default.
Option(value, default) == IF value = "" THEN default ELSE value

\* parser.parse_args(argv): the parser declares no positional argument, so
\* any is an error and the parser exits with status 2.
parse_args(argv) ==
    IF argv.positional > 0
    THEN [exits |-> TRUE, legacy |-> FALSE, manifest |-> "", input_dir |-> "",
          output_dir |-> ""]
    ELSE [exits |-> FALSE, legacy |-> argv.legacy,
          manifest |-> Option(argv.manifest, DEFAULT_MANIFEST_PATH),
          input_dir |-> Option(argv.input_dir, INPUT_DIR),
          output_dir |-> Option(argv.output_dir, OUTPUT_DIR)]

\* main_legacy(): it takes no argument and runs run_pipeline on the
\* directories of the configuration.
main_legacy ==
    [callee |-> "main_legacy", passed |-> 0, manifest |-> "",
     input_dir |-> INPUT_DIR, output_dir |-> OUTPUT_DIR,
     target_size |-> DCI_4K_RESOLUTION]

\* run_yaml_pipeline(manifest_path, input_dir, output_dir)
run_yaml_pipeline(manifest_path, input_dir, output_dir) ==
    [callee |-> "run_yaml_pipeline", passed |-> 3, manifest |-> manifest_path,
     input_dir |-> input_dir, output_dir |-> output_dir, target_size |-> <<0, 0>>]

NoCall ==
    [callee |-> "", passed |-> 0, manifest |-> "", input_dir |-> "", output_dir |-> "",
     target_size |-> <<0, 0>>]

\* main(argv): the call it makes, NoCall if the parser exits.
main(argv) ==
    IF ~argv.explicit /\ NoArguments(argv) THEN main_legacy
    ELSE IF parse_args(argv).exits THEN NoCall
    ELSE IF parse_args(argv).legacy THEN main_legacy
    ELSE run_yaml_pipeline(parse_args(argv).manifest, parse_args(argv).input_dir,
                           parse_args(argv).output_dir)

MaxPositional == 2   \* an argument list has at most MaxPositional positional arguments

ArgumentLists ==
    [explicit : BOOLEAN, legacy : BOOLEAN, manifest : {"", "shots.yml"},
     input_dir : {"", "custom/in"}, output_dir : {"", "custom/out"},
     positional : 0..MaxPositional]

\* Exit codes of main_legacy and of run_yaml_pipeline.
LegacyCodes == {0, 1}

YamlCodes == {0, 1, 2}

NoMain == [returned |-> FALSE, exits |-> FALSE, code |-> -1, call |-> NoCall]

\* The tasks handed to the workers: two sources, two output paths in the
\* output directory, and an operation list that succeeds or fails.
PoolTasks ==
    [source : {<<"in", "scene.png">>, <<"in", "pixel.png">>},
     output : {<<"out", "a.jpg">>, <<"out", "b.jpg">>},
     operations : {<<>>, <<[type |-> "sharpen"]>>}]

PoolTaskLists == UNION {[1..n -> PoolTasks] : n \in 1..MaxTasks}

IdlePool ==
    /\ poolTasks = <<>>
    /\ poolFiles = <<>>
    /\ poolResults = <<>>

\* The manifest files of a run.  `kind` says what reading the file gives:
\*   "no_yaml"    PyYAML is not installed (HAS_YAML is False);
\*   "missing"    the file does not exist;
\*   "malformed"  yaml.safe_load raises yaml.YAMLError;
\*   "sequence"   the document is a YAML sequence, not a mapping;
\*   "mapping"    the document is the mapping `data`.
PipeVariants ==
    {[filename |-> <<"web.jpg">>,
      operations |-> <<[type |-> "resize", width |-> 4, height |-> 2]>>],
     [filename |-> <<"hero.png">>, operations |-> <<[type |-> "crop"]>>],
     [operations |-> <<[type |-> "crop", preset |-> "hero_21x9"]>>]}

PipeRenders ==
    {[source |-> <<"scene.png">>, variants |-> variants] :
        variants \in UNION {[1..n -> PipeVariants] : n \in 0..MaxVariants}}
    \cup {[source |-> <<"ghost.png">>, variants |-> <<[filename |-> <<"web.jpg">>]>>],
          [variants |-> <<[filename |-> <<"web.jpg">>]>>],
          [source |-> <<"scene.png">>]}

PipeManifests ==
    {[renders |-> renders] : renders \in UNION {[1..n -> PipeRenders] : n \in 0..MaxRenders}}
    \cup {[version |-> 1]}

ManifestFiles ==
    {[kind |-> kind, data |-> [version |-> 1]] :
        kind \in {"no_yaml", "missing", "malformed", "sequence"}}
    \cup {[kind |-> "mapping", data |-> data] : data \in PipeManifests}

NoPipe == [pc |-> "idle", tasks |-> <<>>, k |-> 0, processed |-> 0, failed |-> 0,
           code |-> -1, exc |-> ""]

IdlePipe ==
    /\ pipeIn = [kind |-> "missing", data |-> [version |-> 1]]
    /\ pipe = NoPipe

IdleMain ==
    /\ mainArgv = [explicit |-> FALSE, legacy |-> FALSE, manifest |-> "", input_dir |-> "",
                   output_dir |-> "", positional |-> 0]
    /\ mainCall = NoMain

(***************************************************************************)
(* Crop geometry as a state machine: an image is chosen, then              *)
(* crop_to_aspect is called on it with any aspect and any offset.          *)
(***************************************************************************)
InitCrop ==
    /\ cropImage \in ImageSizes
    /\ cropCur = NoCrop
    /\ IdleResize
    /\ IdleVariant
    /\ IdleRun
    /\ IdleGrade
    /\ IdlePrim
    /\ IdleTasks
    /\ IdleMain
    /\ IdlePool
    /\ IdlePipe

CropToAspect(aspect, offset) ==
    /\ ~cropCur.called
    /\ cropCur' = [called |-> TRUE, aspect |-> aspect, offset |-> offset,
                   box |-> crop_to_aspect(cropImage, aspect, offset)]
    /\ UNCHANGED <<cropImage, resizeVars, variantVars, runVars, gradeVars, primVars, taskVars, mainVars, poolVars, pipeVars>>

NextCrop == \E aspect \in Aspects, offset \in OffsetInputs : CropToAspect(aspect, offset)

SpecCrop == InitCrop /\ [][NextCrop]_vars

(***************************************************************************)
(* resize_image as a state machine: a source image object exists, then     *)
(* resize_image is called on it with any target.  A returned image is a    *)
(* new object of the heap (image.copy(), Image.resize and Image.new all    *)
(* allocate); no step writes to an existing object.                        *)
(***************************************************************************)
InitResize ==
    /\ \E size \in ImageSizes : rsHeap = <<[size |-> size, pixels |-> SourcePixels]>>
    /\ rsCall = NoResize
    /\ IdleCrop
    /\ IdleVariant
    /\ IdleRun
    /\ IdleGrade
    /\ IdlePrim
    /\ IdleTasks
    /\ IdleMain
    /\ IdlePool
    /\ IdlePipe

ResizeImage(target) ==
    /\ ~rsCall.called
    /\ LET r == resize_image(rsHeap[1], target)
       IN  IF r.raised
           THEN /\ rsCall' = [called |-> TRUE, target |-> target, raised |-> TRUE,
                              exc |-> r.exc, result |-> 0]
                /\ UNCHANGED rsHeap
           ELSE /\ rsHeap' = Append(rsHeap, [size |-> r.size, pixels |-> r.pixels])
                /\ rsCall' = [called |-> TRUE, target |-> target, raised |-> FALSE,
                              exc |-> "", result |-> Len(rsHeap) + 1]
    /\ UNCHANGED <<cropVars, variantVars, runVars, gradeVars, primVars, taskVars, mainVars, poolVars, pipeVars>>

NextResize == \E target \in TargetSizes : ResizeImage(target)

SpecResize == InitResize /\ [][NextResize]_vars

(***************************************************************************)
(* process_variant(input_path, output_path, operations) as a state         *)
(* machine: the load, one step per operation of the list, the save, and    *)
(* the exception handler.                                                  *)
(***************************************************************************)
InitVariant ==
    /\ pvTask \in Tasks
    /\ pvPc = "load"
    /\ pvOpIdx = 0
    /\ pvImage = NoImage
    /\ pvApplied = <<>>
    /\ pvFiles \in InitialFiles
    /\ pvFiles0 = pvFiles
    /\ pvFailed = NoFailure
    /\ pvSave = NoSave
    /\ pvReturn = "none"
    /\ IdleCrop
    /\ IdleResize
    /\ IdleRun
    /\ IdleGrade
    /\ IdlePrim
    /\ IdleTasks
    /\ IdleMain
    /\ IdlePool
    /\ IdlePipe

\* An exception raised inside the try block: the handler takes it if the
\* except clause matches, otherwise it leaves process_variant.
PVThrow(stage, op, exc) ==
    /\ pvFailed' = [stage |-> stage, op |-> op, exc |-> exc]
    /\ pvPc' = IF Catches(exc) THEN "except" ELSE "raised"

\* image = load_image(input_path); ops = list(operations or [])
PVLoad ==
    /\ pvPc = "load"
    /\ LET r == load_image(pvTask.source)
       IN  IF r.raised
           THEN /\ PVThrow("load", 0, r.exc)
                /\ UNCHANGED <<pvImage, pvOpIdx>>
           ELSE /\ pvImage' = [size |-> r.size, pixels |-> r.pixels]
                /\ pvOpIdx' = 1
                /\ pvPc' = "ops"
                /\ UNCHANGED pvFailed
    /\ UNCHANGED <<pvTask, pvApplied, pvFiles, pvFiles0, pvSave, pvReturn>>
    /\ UNCHANGED <<cropVars, resizeVars, runVars, gradeVars, primVars, taskVars, mainVars, poolVars, pipeVars>>

\* One turn of the loop: the operation is dispatched on its type and its
\* result replaces the working buffer.
PVOperation ==
    /\ pvPc = "ops"
    /\ pvOpIdx <= Len(pvTask.operations)
    /\ LET operation == OperationAt(pvTask.operations, pvOpIdx)
           r         == ApplyOperation(pvImage, operation, pvTask.source)
       IN  IF r.raised
           THEN /\ PVThrow("op", pvOpIdx, r.exc)
                /\ UNCHANGED <<pvImage, pvOpIdx, pvApplied>>
           ELSE /\ pvImage' = [size |-> r.size, pixels |-> r.pixels]
                /\ pvApplied' = Append(pvApplied, operation)
                /\ pvOpIdx' = pvOpIdx + 1
                /\ UNCHANGED <<pvPc, pvFailed>>
    /\ UNCHANGED <<pvTask, pvFiles, pvFiles0, pvSave, pvReturn>>
    /\ UNCHANGED <<cropVars, resizeVars, runVars, gradeVars, primVars, taskVars, mainVars, poolVars, pipeVars>>

\* After the loop: the quality override is resolved, save_image is called
\* and, if it returns, process_variant returns True.
PVSave(outcome) ==
    /\ pvPc = "ops"
    /\ pvOpIdx > Len(pvTask.operations)
    /\ outcome \in SaveOutcomesFor(pvImage, pvTask.output, pvFiles)
    /\ LET q == LastQuality(pvTask.operations, Len(pvTask.operations))
           r == save_image(pvImage, pvTask.output, q.quality, pvFiles, outcome)
       IN  /\ pvFiles' = r.files
           /\ pvSave' = [invoked |-> pvSave.invoked + 1, completed |-> ~r.raised,
                         override |-> q.override, quality |-> q.quality]
           /\ IF r.raised
              THEN /\ PVThrow("save", 0, r.exc)
                   /\ UNCHANGED pvReturn
              ELSE /\ pvPc' = "returned"
                   /\ pvReturn' = "True"
                   /\ UNCHANGED pvFailed
    /\ UNCHANGED <<pvTask, pvOpIdx, pvImage, pvApplied, pvFiles0>>
    /\ UNCHANGED <<cropVars, resizeVars, runVars, gradeVars, primVars, taskVars, mainVars, poolVars, pipeVars>>

\* except Exception as exc: print(...); return False
PVExcept ==
    /\ pvPc = "except"
    /\ pvPc' = "returned"
    /\ pvReturn' = "False"
    /\ UNCHANGED <<pvTask, pvOpIdx, pvImage, pvApplied, pvFiles, pvFiles0, pvFailed, pvSave>>
    /\ UNCHANGED <<cropVars, resizeVars, runVars, gradeVars, primVars, taskVars, mainVars, poolVars, pipeVars>>

NextVariant ==
    \/ PVLoad
    \/ PVOperation
    \/ \E outcome \in SaveOutcomes : PVSave(outcome)
    \/ PVExcept

SpecVariant == InitVariant /\ [][NextVariant]_vars

(***************************************************************************)
(* process_variant on tasks made of crop and resize operations only, with  *)
(* every shape of parameter set the two branches distinguish: a known or   *)
(* unknown preset, an explicit ratio, explicit dimensions that are         *)
(* positive, zero or negative, and missing keys.                           *)
(***************************************************************************)
GeometryOps ==
    {[type |-> "crop", preset |-> "square_1x1", offset |-> <<OffDen, 0>>],
     [type |-> "crop", preset |-> "hero_21x9"],
     [type |-> "crop", preset |-> "poster"],
     [type |-> "crop", aspect |-> <<16, 9>>],
     [type |-> "crop", aspect |-> <<1, 1>>, offset |-> <<0, OffDen>>],
     [type |-> "crop"],
     [type |-> "resize", preset |-> "square_1080"],
     [type |-> "resize", preset |-> "poster"],
     [type |-> "resize", width |-> 4, height |-> 2],
     [type |-> "resize", width |-> 4],
     [type |-> "resize", width |-> 0, height |-> 2],
     [type |-> "resize", width |-> 1, height |-> 0],
     [type |-> "resize", width |-> -4, height |-> -2]}

GeometryOpLists == UNION {[1..n -> GeometryOps] : n \in 0..MaxOps}

GeometryTasks ==
    [source : {<<"in", "scene.png">>, <<"in", "pixel.png">>},
     output : OutPaths, operations : GeometryOpLists]

InitGeometry ==
    /\ pvTask \in GeometryTasks
    /\ pvPc = "load"
    /\ pvOpIdx = 0
    /\ pvImage = NoImage
    /\ pvApplied = <<>>
    /\ pvFiles \in InitialFiles
    /\ pvFiles0 = pvFiles
    /\ pvFailed = NoFailure
    /\ pvSave = NoSave
    /\ pvReturn = "none"
    /\ IdleCrop
    /\ IdleResize
    /\ IdleRun
    /\ IdleGrade
    /\ IdlePrim
    /\ IdleTasks
    /\ IdleMain
    /\ IdlePool
    /\ IdlePipe

SpecGeometry == InitGeometry /\ [][NextVariant]_vars

(***************************************************************************)
(* run_yaml_pipeline(manifest_path, input_dir, output_dir) from the loop   *)
(* over the expanded tasks on.  The task list is immutable, so the entry   *)
(* of a task is drawn when the loop reaches it: the runs are those of a    *)
(* list drawn up front.  One turn of the loop is one action.               *)
(***************************************************************************)
Init ==
    /\ runPc = "loop"
    /\ nTasks \in 1..MaxTasks
    /\ runResults = <<>>
    /\ runFiles \in InitialFiles
    /\ processed = 0
    /\ failed = 0
    /\ exitCode = -1
    /\ IdleCrop
    /\ IdleResize
    /\ IdleVariant
    /\ IdleGrade
    /\ IdlePrim
    /\ IdleTasks
    /\ IdleMain
    /\ IdlePool
    /\ IdlePipe

\* The scheduler's bookkeeping after process_variant returned `pv` for a
\* task whose directory was made, leaving the files `before`.
CountTask(task, before, pv) ==
    /\ runFiles' = pv.files
    /\ runResults' = Append(runResults,
           [output |-> task.output, executed |-> 1, success |-> pv.success,
            wrote |-> pv.files[task.output] # before[task.output]])
    /\ IF pv.raised
       THEN /\ runPc' = "raised"
            /\ UNCHANGED <<processed, failed>>
       ELSE /\ processed' = IF pv.success THEN processed + 1 ELSE processed
            /\ failed' = IF pv.success THEN failed ELSE failed + 1
            /\ UNCHANGED runPc

RunVariant(task, outcome, before) ==
    /\ outcome \in SaveOutcomesOf(task, before)
    /\ CountTask(task, before, process_variant(task, before, outcome))

\* A turn of the loop whose output_path.parent.mkdir(parents=True,
\* exist_ok=True) succeeds: process_variant runs and is counted.
RunTask(task, outcome) ==
    /\ runPc = "loop"
    /\ Len(runResults) < nTasks
    /\ ~MakeDirs(Parent(task.output), runFiles).raised
    /\ RunVariant(task, outcome, MakeDirs(Parent(task.output), runFiles).files)
    /\ UNCHANGED <<nTasks, exitCode>>
    /\ UNCHANGED <<cropVars, resizeVars, variantVars, gradeVars, primVars, taskVars, mainVars, poolVars, pipeVars>>

\* A turn of the loop whose mkdir raises (the parent of the output path is
\* an existing file): nothing catches it, the exception leaves
\* run_yaml_pipeline and no later task is reached.
RunTaskMkdirRaises(task) ==
    /\ runPc = "loop"
    /\ Len(runResults) < nTasks
    /\ MakeDirs(Parent(task.output), runFiles).raised
    /\ runResults' = Append(runResults,
           [output |-> task.output, executed |-> 0, success |-> FALSE, wrote |-> FALSE])
    /\ runPc' = "raised"
    /\ UNCHANGED <<nTasks, runFiles, processed, failed, exitCode>>
    /\ UNCHANGED <<cropVars, resizeVars, variantVars, gradeVars, primVars, taskVars, mainVars, poolVars, pipeVars>>

\* After the loop: return 0 if failed == 0 else 2.
RunReturn ==
    /\ runPc = "loop"
    /\ Len(runResults) = nTasks
    /\ runPc' = "done"
    /\ exitCode' = IF failed = 0 THEN 0 ELSE 2
    /\ UNCHANGED <<nTasks, runResults, runFiles, processed, failed>>
    /\ UNCHANGED <<cropVars, resizeVars, variantVars, gradeVars, primVars, taskVars, mainVars, poolVars, pipeVars>>

Next ==
    \/ \E task \in RunTasks, outcome \in SaveOutcomes : RunTask(task, outcome)
    \/ \E task \in RunTasks : RunTaskMkdirRaises(task)
    \/ RunReturn

Spec == Init /\ [][Next]_vars

(***************************************************************************)
(* apply_grading as a state machine: an image exists, then apply_grading   *)
(* is called on it with any grading mapping.                               *)
(***************************************************************************)
InitGrade ==
    /\ gradeImage \in GradeImages
    /\ gradeCur = NoGrade
    /\ IdleCrop
    /\ IdleResize
    /\ IdleVariant
    /\ IdleRun
    /\ IdlePrim
    /\ IdleTasks
    /\ IdleMain
    /\ IdlePool
    /\ IdlePipe

ApplyGrading(grading) ==
    /\ ~gradeCur.called
    /\ gradeCur' = [called |-> TRUE, grading |-> grading,
                    result |-> apply_grading(gradeImage, grading)]
    /\ UNCHANGED <<gradeImage, cropVars, resizeVars, variantVars, runVars, primVars, taskVars, mainVars, poolVars, pipeVars>>

NextGrade == \E grading \in GradeMappings : ApplyGrading(grading)

SpecGrade == InitGrade /\ [][NextGrade]_vars

(***************************************************************************)
(* The grading primitives as a state machine: a source image object        *)
(* exists, then one primitive is called on it.  Every primitive returns a  *)
(* new object (image.copy(), Image.fromarray, Image.filter, Image.blend    *)
(* and Image.convert all allocate); no step writes to an existing object.  *)
(***************************************************************************)
InitPrim ==
    /\ \E source \in PrimSources :
           /\ primData = source.data
           /\ primHeap = <<[mode |-> source.mode, size |-> <<Len(source.data), 1>>,
                            pixels |-> SourcePixels]>>
    /\ primCall = NoPrimCall
    /\ IdleCrop
    /\ IdleResize
    /\ IdleVariant
    /\ IdleRun
    /\ IdleGrade
    /\ IdleTasks
    /\ IdleMain
    /\ IdlePool
    /\ IdlePipe

\* The call `primitive(primHeap[1], parameters)` returned `result`.
PrimReturn(primitive, parameters, result) ==
    /\ primHeap' = Append(primHeap, result)
    /\ primCall' = [called |-> TRUE, primitive |-> primitive, parameters |-> parameters,
                    result |-> Len(primHeap) + 1]
    /\ UNCHANGED <<primData, cropVars, resizeVars, variantVars, runVars, gradeVars, taskVars, mainVars, poolVars, pipeVars>>

TemperatureShift(mired_shift) ==
    /\ ~primCall.called
    /\ PrimReturn("apply_temperature_shift", <<mired_shift>>,
                  apply_temperature_shift(primHeap[1], mired_shift))

ShadowLift(amount) ==
    /\ ~primCall.called
    /\ PrimReturn("apply_shadow_lift", <<amount>>, apply_shadow_lift(primHeap[1], amount))

HighlightLift(amount) ==
    /\ ~primCall.called
    /\ PrimReturn("apply_highlight_lift", <<amount>>,
                  apply_highlight_lift(primHeap[1], amount))

LocalContrast(amount) ==
    /\ ~primCall.called
    /\ PrimReturn("apply_local_contrast", <<amount>>,
                  apply_local_contrast(primHeap[1], amount))

MaterialDefinition(p) ==
    /\ ~primCall.called
    /\ PrimReturn("enhance_material_definition", p,
                  enhance_material_definition(primHeap[1], p[1], p[2], p[3], p[4]))

Inpaint(mask, strength, blur) ==
    /\ ~primCall.called
    /\ PrimReturn("inpaint_with_mask", <<mask, strength, blur>>,
                  InpaintWithMask(primHeap[1], mask, strength, blur))

Grading(grading) ==
    /\ ~primCall.called
    /\ PrimReturn("apply_grading", grading, apply_grading(primHeap[1], grading))

NextPrim ==
    \/ \E mired_shift \in TemperatureShifts : TemperatureShift(mired_shift)
    \/ \E amount \in LiftAmounts : ShadowLift(amount)
    \/ \E amount \in LiftAmounts : HighlightLift(amount)
    \/ \E amount \in ContrastAmounts : LocalContrast(amount)
    \/ \E p \in MaterialParameters : MaterialDefinition(p)
    \/ \E mask \in InpaintMasks, strength \in InpaintStrengths, blur \in BlurWeights :
           Inpaint(mask, strength, blur)
    \/ \E grading \in PrimGradings : Grading(grading)

SpecPrim == InitPrim /\ [][NextPrim]_vars

(***************************************************************************)
(* iterate_tasks as a state machine: the generator is created on a         *)
(* manifest, and each step is one resumption of it, as list() drives it    *)
(* in run_yaml_pipeline.                                                   *)
(***************************************************************************)
InitTasks ==
    /\ taskManifest \in Manifests
    /\ taskPos = <<0, 0>>
    /\ taskPc = "running"
    /\ taskYielded = <<>>
    /\ IdleCrop
    /\ IdleResize
    /\ IdleVariant
    /\ IdleRun
    /\ IdleGrade
    /\ IdlePrim
    /\ IdleMain
    /\ IdlePool
    /\ IdlePipe

\* The generator yields its next task.
TaskYield ==
    /\ taskPc = "running"
    /\ iterate_tasks(taskManifest, InputDir, OutputDir, taskPos).kind = "yield"
    /\ taskYielded' = Append(taskYielded,
           iterate_tasks(taskManifest, InputDir, OutputDir, taskPos).task)
    /\ taskPos' = iterate_tasks(taskManifest, InputDir, OutputDir, taskPos).pos
    /\ UNCHANGED <<taskManifest, taskPc>>
    /\ UNCHANGED <<cropVars, resizeVars, variantVars, runVars, gradeVars, primVars, mainVars, poolVars, pipeVars>>

\* The generator raises ValueError on the next render or variant.
TaskRaise ==
    /\ taskPc = "running"
    /\ iterate_tasks(taskManifest, InputDir, OutputDir, taskPos).kind = "raise"
    /\ taskPc' = "raised"
    /\ taskPos' = iterate_tasks(taskManifest, InputDir, OutputDir, taskPos).pos
    /\ UNCHANGED <<taskManifest, taskYielded>>
    /\ UNCHANGED <<cropVars, resizeVars, variantVars, runVars, gradeVars, primVars, mainVars, poolVars, pipeVars>>

\* The generator is exhausted.
TaskStop ==
    /\ taskPc = "running"
    /\ iterate_tasks(taskManifest, InputDir, OutputDir, taskPos).kind = "stop"
    /\ taskPc' = "done"
    /\ UNCHANGED <<taskManifest, taskPos, taskYielded>>
    /\ UNCHANGED <<cropVars, resizeVars, variantVars, runVars, gradeVars, primVars, mainVars, poolVars, pipeVars>>

NextTasks == TaskYield \/ TaskRaise \/ TaskStop

SpecTasks == InitTasks /\ [][NextTasks]_vars

(***************************************************************************)
(* main(argv) as a state machine: an argument list is given, then main     *)
(* runs: it calls one pipeline and returns its exit code, or the parser    *)
(* exits.                                                                  *)
(***************************************************************************)
InitMain ==
    /\ mainArgv \in ArgumentLists
    /\ mainCall = NoMain
    /\ IdleCrop
    /\ IdleResize
    /\ IdleVariant
    /\ IdleRun
    /\ IdleGrade
    /\ IdlePrim
    /\ IdleTasks
    /\ IdlePool
    /\ IdlePipe

\* return main_legacy()
MainLegacy(code) ==
    /\ ~mainCall.returned /\ ~mainCall.exits
    /\ main(mainArgv).callee = "main_legacy"
    /\ mainCall' = [returned |-> TRUE, exits |-> FALSE, code |-> code, call |-> main(mainArgv)]
    /\ UNCHANGED <<mainArgv, cropVars, resizeVars, variantVars, runVars, gradeVars, primVars,
                   taskVars, poolVars, pipeVars>>

\* return run_yaml_pipeline(manifest_path, input_dir, output_dir)
MainYaml(code) ==
    /\ ~mainCall.returned /\ ~mainCall.exits
    /\ main(mainArgv).callee = "run_yaml_pipeline"
    /\ mainCall' = [returned |-> TRUE, exits |-> FALSE, code |-> code, call |-> main(mainArgv)]
    /\ UNCHANGED <<mainArgv, cropVars, resizeVars, variantVars, runVars, gradeVars, primVars,
                   taskVars, poolVars, pipeVars>>

\* parse_args rejects the argument list: SystemExit(2), no pipeline runs.
MainUsageError ==
    /\ ~mainCall.returned /\ ~mainCall.exits
    /\ main(mainArgv) = NoCall
    /\ mainCall' = [returned |-> FALSE, exits |-> TRUE, code |-> 2, call |-> NoCall]
    /\ UNCHANGED <<mainArgv, cropVars, resizeVars, variantVars, runVars, gradeVars, primVars,
                   taskVars, poolVars, pipeVars>>

NextMain ==
    \/ \E code \in LegacyCodes : MainLegacy(code)
    \/ \E code \in YamlCodes : MainYaml(code)
    \/ MainUsageError

SpecMain == InitMain /\ [][NextMain]_vars

(***************************************************************************)
(* The loop body of run_yaml_pipeline as the unit of work of a worker: the *)
(* tasks of one run are taken in any order, each one running the body      *)
(* (mkdir of the parent, process_variant, bookkeeping) on the shared       *)
(* output tree.  The save capability succeeds whenever it can.             *)
(***************************************************************************)
\* The save outcome of a task on an output tree without I/O failures.
SaveOutcomeOf(task, files) ==
    IF "ok" \in SaveOutcomesOf(task, files) THEN "ok" ELSE "open_error"

\* One turn of the loop for `task` on the tree `files`: [success, files].
LoopBody(task, files) ==
    LET made == MakeDirs(Parent(task.output), files).files
        pv   == process_variant(task, made, SaveOutcomeOf(task, made))
    IN  [success |-> pv.success, files |-> pv.files]

\* for task in tasks: the loop from its k-th turn on, [files, results].
RECURSIVE SequentialRun(_, _, _, _)
SequentialRun(tasks, k, files, results) ==
    IF k > Len(tasks) THEN [files |-> files, results |-> results]
    ELSE SequentialRun(tasks, k + 1, LoopBody(tasks[k], files).files,
                       Append(results, IF LoopBody(tasks[k], files).success
                                       THEN "True" ELSE "False"))

InitPool ==
    /\ poolTasks \in PoolTaskLists
    /\ poolFiles = [path \in OutPaths |-> Absent]
    /\ poolResults = [i \in 1..Len(poolTasks) |-> "pending"]
    /\ IdleCrop
    /\ IdleResize
    /\ IdleVariant
    /\ IdleRun
    /\ IdleGrade
    /\ IdlePrim
    /\ IdleTasks
    /\ IdleMain
    /\ IdlePipe

\* A worker takes the pending task i and runs the loop body for it.
PoolWorker(i) ==
    /\ poolResults[i] = "pending"
    /\ poolFiles' = LoopBody(poolTasks[i], poolFiles).files
    /\ poolResults' = [poolResults EXCEPT ![i] =
           IF LoopBody(poolTasks[i], poolFiles).success THEN "True" ELSE "False"]
    /\ UNCHANGED poolTasks
    /\ UNCHANGED <<cropVars, resizeVars, variantVars, runVars, gradeVars, primVars, taskVars, mainVars, pipeVars>>

NextPool == \E i \in 1..MaxTasks : i <= Len(poolTasks) /\ PoolWorker(i)

SpecPool == InitPool /\ [][NextPool]_vars

(***************************************************************************)
(* run_yaml_pipeline(manifest_path, input_dir, output_dir) from its first  *)
(* statement: the manifest is loaded, expanded into the task list, and the *)
(* tasks are run.  `pipe.pc` is "load", "expand", "loop", then "returned"  *)
(* with an exit code or "raised" with the exception that left the call.    *)
(***************************************************************************)
\* load_yaml_manifest(manifest_path): [raised, exc, data].
load_yaml_manifest(file) ==
    IF file.kind = "no_yaml" THEN [raised |-> TRUE, exc |-> "ImportError", data |-> file.data]
    ELSE IF file.kind = "missing"
    THEN [raised |-> TRUE, exc |-> "FileNotFoundError", data |-> file.data]
    ELSE IF file.kind = "malformed"
    THEN [raised |-> TRUE, exc |-> "YAMLError", data |-> file.data]
    ELSE IF file.kind = "sequence"
    THEN \* data.get("renders") on a list
         [raised |-> TRUE, exc |-> "AttributeError", data |-> file.data]
    ELSE IF GetOrEmpty(file.data, "renders") = <<>>
    THEN [raised |-> TRUE, exc |-> "ValueError", data |-> file.data]
    ELSE [raised |-> FALSE, exc |-> "", data |-> file.data]

\* except (OSError, ValueError, ImportError) around load_yaml_manifest.
LoadCatches(exc) == exc \in {"OSError", "FileNotFoundError", "FileExistsError",
                             "ValueError", "ImportError"}

\* list(iterate_tasks(manifest, input_dir, output_dir)) with the generator
\* resumed at `pos`: [raised, exc, tasks].
RECURSIVE ListTasks(_, _, _)
ListTasks(manifest, pos, tasks) ==
    LET step == iterate_tasks(manifest, InputDir, OutputDir, pos)
    IN  IF step.kind = "raise" THEN [raised |-> TRUE, exc |-> step.exc, tasks |-> tasks]
        ELSE IF step.kind = "stop" THEN [raised |-> FALSE, exc |-> "", tasks |-> tasks]
        ELSE ListTasks(manifest, step.pos, Append(tasks, step.task))

InitPipeline ==
    /\ pipeIn \in ManifestFiles
    /\ pipe = [NoPipe EXCEPT !.pc = "load"]
    /\ IdleCrop
    /\ IdleResize
    /\ IdleVariant
    /\ IdleRun
    /\ IdleGrade
    /\ IdlePrim
    /\ IdleTasks
    /\ IdleMain
    /\ IdlePool

\* try: manifest = load_yaml_manifest(manifest_path)
\* except (OSError, ValueError, ImportError): return 1
PipeLoad ==
    /\ pipe.pc = "load"
    /\ LET loaded == load_yaml_manifest(pipeIn)
       IN  pipe' = IF ~loaded.raised THEN [pipe EXCEPT !.pc = "expand"]
                   ELSE IF LoadCatches(loaded.exc)
                   THEN [pipe EXCEPT !.pc = "returned", !.code = 1]
                   ELSE [pipe EXCEPT !.pc = "raised", !.exc = loaded.exc]
    /\ UNCHANGED pipeIn
    /\ UNCHANGED <<cropVars, resizeVars, variantVars, runVars, gradeVars, primVars, taskVars, mainVars, poolVars>>

\* os.makedirs(output_dir, exist_ok=True); tasks = list(iterate_tasks(...))
PipeExpand(makedirs) ==
    /\ pipe.pc = "expand"
    /\ LET listed == ListTasks(pipeIn.data, <<0, 0>>, <<>>)
       IN  pipe' = IF makedirs # "ok"
                   THEN [pipe EXCEPT !.pc = "raised", !.exc = makedirs]
                   ELSE IF listed.raised
                   THEN [pipe EXCEPT !.pc = "raised", !.exc = listed.exc]
                   ELSE [pipe EXCEPT !.pc = "loop", !.tasks = listed.tasks, !.k = 1]
    /\ UNCHANGED pipeIn
    /\ UNCHANGED <<cropVars, resizeVars, variantVars, runVars, gradeVars, primVars, taskVars, mainVars, poolVars>>

\* One turn of `for task in tasks`: the parent directory is made, then
\* process_variant runs and is counted.  `mkdir` and `saved` are the
\* outcomes of the directory creation and of the save capability.
PipeTask(mkdir, saved) ==
    /\ pipe.pc = "loop"
    /\ pipe.k <= Len(pipe.tasks)
    /\ LET ran     == LoadAndRun(pipe.tasks[pipe.k])
           success == ~ran.raised /\ saved
       IN  pipe' = IF mkdir # "ok"
                   THEN [pipe EXCEPT !.pc = "raised", !.exc = mkdir]
                   ELSE IF ran.raised /\ ~Catches(ran.exc)
                   THEN [pipe EXCEPT !.pc = "raised", !.exc = ran.exc]
                   ELSE [pipe EXCEPT !.k = @ + 1,
                                     !.processed = IF success THEN @ + 1 ELSE @,
                                     !.failed = IF success THEN @ ELSE @ + 1]
    /\ UNCHANGED pipeIn
    /\ UNCHANGED <<cropVars, resizeVars, variantVars, runVars, gradeVars, primVars, taskVars, mainVars, poolVars>>

\* return 0 if failed == 0 else 2
PipeReturn ==
    /\ pipe.pc = "loop"
    /\ pipe.k > Len(pipe.tasks)
    /\ pipe' = [pipe EXCEPT !.pc = "returned", !.code = IF pipe.failed = 0 THEN 0 ELSE 2]
    /\ UNCHANGED pipeIn
    /\ UNCHANGED <<cropVars, resizeVars, variantVars, runVars, gradeVars, primVars, taskVars, mainVars, poolVars>>

NextPipeline ==
    \/ PipeLoad
    \/ \E makedirs \in {"ok", "FileExistsError"} : PipeExpand(makedirs)
    \/ \E mkdir \in {"ok", "FileExistsError"}, saved \in BOOLEAN : PipeTask(mkdir, saved)
    \/ PipeReturn

SpecPipeline == InitPipeline /\ [][NextPipeline]_vars

(***************************************************************************)
(* Claims about the crop geometry (checked under SpecCrop).                *)
(***************************************************************************)
BoxWidth(box) == box[3] - box[1]

BoxHeight(box) == box[4] - box[2]

\* C1: for every image size W >= 1, H >= 1, every aspect and every offset the
\* crop box is non-empty and inside the image:
\* 0 <= left < right <= W and 0 <= top < bottom <= H.
C1_CropBoxNonEmptyContained ==
    cropCur.called =>
        /\ 0 <= cropCur.box[1] /\ cropCur.box[1] < cropCur.box[3]
        /\ cropCur.box[3] <= cropImage[1]
        /\ 0 <= cropCur.box[2] /\ cropCur.box[2] < cropCur.box[4]
        /\ cropCur.box[4] <= cropImage[2]

\* C2: when W/H differs from R = rw/rh, the box has the ratio R within one
\* pixel: |w - h*R| <= 1 when the height is kept (image too wide) and
\* |h - w/R| <= 1 when the width is kept (image too tall).  Both sides are
\* multiplied by rh (by rw) to stay in the integers.
C2_RatioWithinOnePixel ==
    LET W  == cropImage[1]
        H  == cropImage[2]
        rw == cropCur.aspect[1]
        rh == cropCur.aspect[2]
        w  == BoxWidth(cropCur.box)
        h  == BoxHeight(cropCur.box)
    IN  (cropCur.called /\ W * rh # rw * H) =>
            IF W * rh > rw * H
            THEN h = H /\ Abs(w * rh - h * rw) <= rh
            ELSE w = W /\ Abs(h * rw - w * rh) <= rw

\* C2 witness: a crop of an image whose ratio differs from the target and
\* that really removes columns.
C2_Witness ==
    /\ cropCur.called
    /\ cropImage[1] * cropCur.aspect[2] > cropCur.aspect[1] * cropImage[2]
    /\ BoxWidth(cropCur.box) < cropImage[1]
    /\ BoxWidth(cropCur.box) > 0

\* The offset of the latest call, clamped to [-1, 1] on both axes.
ClampedOffset(offset) ==
    <<Max2(-OffDen, Min2(OffDen, offset[1])), Max2(-OffDen, Min2(OffDen, offset[2]))>>

\* C3: for a fixed image and ratio the window position (left, top) is a
\* non-decreasing function of the offset on its axis; an offset <= -1 gives
\* position 0, an offset >= +1 gives the full slack, and an out-of-range
\* offset gives the box of the clamped offset.
C3_OffsetMonotoneClamped ==
    (cropCur.called /\ cropCur.offset # NoOffset) =>
        LET box    == cropCur.box
            ox     == cropCur.offset[1]
            oy     == cropCur.offset[2]
            slackX == cropImage[1] - BoxWidth(box)
            slackY == cropImage[2] - BoxHeight(box)
        IN  /\ \A o2 \in OffsetPairs :
                LET box2 == crop_to_aspect(cropImage, cropCur.aspect, o2)
                IN  /\ (o2[1] >= ox) => (box2[1] >= box[1])
                    /\ (o2[2] >= oy) => (box2[2] >= box[2])
            /\ (ox <= -OffDen) => (box[1] = 0)
            /\ (oy <= -OffDen) => (box[2] = 0)
            /\ (ox >= OffDen) => (box[1] = slackX)
            /\ (oy >= OffDen) => (box[2] = slackY)
            /\ box = crop_to_aspect(cropImage, cropCur.aspect,
                                    ClampedOffset(cropCur.offset))

\* C3 witness: an offset beyond +1 on a too-wide image with slack: the window
\* sits at the right edge.
C3_Witness ==
    /\ cropCur.called
    /\ cropCur.offset # NoOffset
    /\ cropCur.offset[1] > OffDen
    /\ cropImage[1] - BoxWidth(cropCur.box) > 0
    /\ cropCur.box[1] = cropImage[1] - BoxWidth(cropCur.box)
    /\ cropCur.box[3] = cropImage[1]

(***************************************************************************)
(* Claims about resize_image (checked under SpecResize).                   *)
(***************************************************************************)
\* C4: for every source size and every requested target (tw, th) with
\* tw, th >= 1, resize_image returns a buffer of exactly (tw, th); when the
\* source already has the target dimensions the result is a distinct buffer
\* with identical pixels, and the source buffer is not modified.
C4_ResizeYieldsTarget ==
    (rsCall.called /\ rsCall.target[1] >= 1 /\ rsCall.target[2] >= 1) =>
        /\ ~rsCall.raised
        /\ rsCall.result # 1
        /\ rsHeap[rsCall.result].size = rsCall.target
        /\ rsHeap[1].pixels = SourcePixels
        /\ (rsHeap[1].size = rsCall.target) =>
               (rsHeap[rsCall.result].pixels = rsHeap[1].pixels)

(***************************************************************************)
(* Claims about process_variant (checked under SpecVariant).               *)
(***************************************************************************)
\* The working buffer after the first n operations of the list, each applied
\* to the result of the one before, starting from the loaded source.
RECURSIVE BufferAfter(_)
BufferAfter(n) ==
    IF n = 0 THEN load_image(pvTask.source)
    ELSE ApplyOperation([size |-> BufferAfter(n - 1).size,
                         pixels |-> BufferAfter(n - 1).pixels],
                        pvTask.operations[n], pvTask.source)

\* C5: process_variant applies the operations strictly in list order to one
\* working buffer: the operations applied so far are the first ones of the
\* list, each applied once, the buffer is the result of applying them in
\* turn to the loaded source, and save_image is called (once) only when the
\* whole list has been applied.
C5_OperationsInListOrder ==
    (pvPc # "idle") =>
        /\ Len(pvApplied) <= Len(pvTask.operations)
        /\ \A i \in 1..Len(pvApplied) : pvApplied[i] = pvTask.operations[i]
        /\ (pvPc = "ops") =>
               /\ Len(pvApplied) = pvOpIdx - 1
               /\ pvImage.size = BufferAfter(Len(pvApplied)).size
               /\ pvImage.pixels = BufferAfter(Len(pvApplied)).pixels
        /\ (pvSave.invoked > 0) =>
               /\ pvSave.invoked = 1
               /\ pvApplied = pvTask.operations
               /\ pvImage.size = BufferAfter(Len(pvTask.operations)).size
               /\ pvImage.pixels = BufferAfter(Len(pvTask.operations)).pixels

\* C5 witness: a variant of two different operations was processed and
\* saved: the file holds the buffer of the second applied to the first.
C5_Witness ==
    /\ pvReturn = "True"
    /\ Len(pvTask.operations) = 2
    /\ pvTask.operations[1] # pvTask.operations[2]
    /\ pvApplied = pvTask.operations
    /\ pvFiles[pvTask.output].kind = "file"
    /\ pvFiles[pvTask.output].pixels = BufferAfter(2).pixels
    /\ Len(pvFiles[pvTask.output].pixels) = Len(SourcePixels) + 2

\* An operation that cannot be applied: not a mapping, of an unrecognized
\* type, with a malformed parameter set, or naming a mask file that is
\* missing.
FailingOperation(operation) ==
    \/ "scalar" \in DOMAIN operation
    \/ "type" \notin DOMAIN operation
    \/ operation.type \notin {"resize", "crop", "grade", "inpaint",
                              "material_enhance", "enhance_materials"}
    \/ /\ operation.type = "resize"
       /\ "preset" \notin DOMAIN operation
       /\ ~("width" \in DOMAIN operation /\ "height" \in DOMAIN operation)
    \/ operation.type = "crop" /\ "preset" \notin DOMAIN operation
    \/ /\ operation.type = "inpaint"
       /\ ("mask" \notin DOMAIN operation \/ operation.mask = "missing.png")

\* C6: when an operation of the list fails, process_variant ends in failure
\* (it returns False), no operation after the failing one is applied,
\* save_image is never called and the output files are what they were; a
\* list that contains an operation of an unrecognized type, a malformed one
\* or one whose mask is missing never yields True.
C6_FailedOperationWritesNothing ==
    /\ (pvFailed.stage = "op") =>
           /\ pvPc \in {"except", "returned"}
           /\ pvReturn # "True"
           /\ pvOpIdx = pvFailed.op
           /\ Len(pvApplied) = pvFailed.op - 1
           /\ pvSave.invoked = 0
           /\ pvFiles = pvFiles0
    /\ (pvPc = "returned" /\ \E i \in 1..Len(pvTask.operations) :
                                 FailingOperation(pvTask.operations[i])) =>
           /\ pvReturn = "False"
           /\ pvSave.invoked = 0
           /\ pvFiles[pvTask.output] = pvFiles0[pvTask.output]

\* C6 witness: the first operation was applied, the second one failed, and
\* process_variant returned False with no file at the output path.
C6_Witness ==
    /\ pvPc = "returned"
    /\ pvReturn = "False"
    /\ pvFailed.stage = "op"
    /\ pvFailed.op = 2
    /\ Len(pvApplied) = 1
    /\ pvFiles0[pvTask.output] = Absent
    /\ pvFiles[pvTask.output] = Absent

\* C7: no exception leaves process_variant: a failure of the load, of an
\* operation or of the save is turned into the return value False, and the
\* return value is True only if save_image completed.
C7_NeverRaisesTrueOnlyIfSaved ==
    /\ pvPc # "raised"
    /\ (pvPc = "returned") => pvReturn \in {"True", "False"}
    /\ (pvPc = "returned" /\ pvFailed # NoFailure) => pvReturn = "False"
    /\ (pvReturn = "True") =>
           /\ pvFailed = NoFailure
           /\ pvSave.invoked = 1
           /\ pvSave.completed
           /\ pvFiles[pvTask.output].kind = "file"
           /\ pvFiles[pvTask.output].size = pvImage.size
           /\ pvFiles[pvTask.output].pixels = pvImage.pixels

\* C7 witness: save_image raised after every operation had been applied,
\* and process_variant returned False.
C7_Witness ==
    /\ pvPc = "returned"
    /\ pvReturn = "False"
    /\ pvFailed.stage = "save"
    /\ pvFailed.exc = "OSError"
    /\ pvSave.invoked = 1
    /\ ~pvSave.completed
    /\ Len(pvApplied) = Len(pvTask.operations)

(***************************************************************************)
(* Claims about run_yaml_pipeline (checked under Spec).                    *)
(***************************************************************************)
\* C8: run_yaml_pipeline executes every task exactly once whatever happened
\* to the tasks before it: no exception ends the loop early, and when the
\* run is over every task of the list has been executed once and
\* processed + failed is the number of tasks.
C8_EveryTaskExecutedOnce ==
    /\ runPc # "raised"
    /\ processed + failed = Len(runResults)
    /\ \A i \in 1..Len(runResults) : runResults[i].executed = 1
    /\ (runPc = "done") =>
           /\ Len(runResults) = nTasks
           /\ processed + failed = nTasks

\* C9: for every task that ended in failure, no partial or corrupt file
\* written by that task is at its output path (a later task with the same
\* output path may have replaced the file).
C9_NoPartialOutputLeft ==
    \A i \in 1..Len(runResults) :
        (/\ runResults[i].executed = 1
         /\ ~runResults[i].success
         /\ runResults[i].wrote
         /\ \A j \in (i + 1)..Len(runResults) :
                runResults[j].output # runResults[i].output) =>
            runFiles[runResults[i].output].kind # "partial"

(***************************************************************************)
(* Claims about apply_grading (checked under SpecGrade).                   *)
(***************************************************************************)
\* The primitives of a grade in the order the specification fixes.
GradeSequence == <<"Brightness", "Contrast", "Color", "temperature_shift",
                   "shadow_lift", "highlight_lift", "local_contrast">>

GradeRank(primitive) == CHOOSE k \in 1..Len(GradeSequence) : GradeSequence[k] = primitive

\* The primitives applied by the latest call, in the order of application:
\* what the result adds to the pixels of the image passed in.
GradeTrace ==
    SubSeq(gradeCur.result.pixels, Len(gradeImage.pixels) + 1,
           Len(gradeCur.result.pixels))

\* The mapping of the latest call gives `key` a value that is not null.
GradeGiven(key) ==
    \E i \in 1..Len(gradeCur.grading) :
        gradeCur.grading[i][1] = key /\ gradeCur.grading[i][2] # NoValue

\* The mapping of the latest call gives `key` a value other than null and 0.
GradeGivenNonZero(key) ==
    \E i \in 1..Len(gradeCur.grading) :
        gradeCur.grading[i][1] = key /\ gradeCur.grading[i][2] \notin {NoValue, <<0>>}

GradeApplied(primitive) == \E k \in 1..Len(GradeTrace) : GradeTrace[k][1] = primitive

\* C10: whatever the order of the keys in the mapping, apply_grading applies
\* the adjustments that are given in the sequence exposure, contrast,
\* saturation, temperature shift, shadow lift, highlight lift, micro/local
\* contrast, each at most once and each to the output of the one before:
\* the primitives applied are in strictly increasing position of that
\* sequence, they are those of the keys given, they extend the pixels of the
\* image passed in, and every reordering of the mapping gives the same
\* result.
C10_GradingFixedOrder ==
    gradeCur.called =>
        /\ gradeCur.result.size = gradeImage.size
        /\ Len(gradeCur.result.pixels) >= Len(gradeImage.pixels)
        /\ SubSeq(gradeCur.result.pixels, 1, Len(gradeImage.pixels)) = gradeImage.pixels
        /\ \A k \in 1..Len(GradeTrace) :
               GradeTrace[k][1] \in {GradeSequence[n] : n \in 1..Len(GradeSequence)}
        /\ \A k, l \in 1..Len(GradeTrace) :
               (k < l) => (GradeRank(GradeTrace[k][1]) < GradeRank(GradeTrace[l][1]))
        /\ GradeApplied("Brightness") <=> GradeGiven("exposure")
        /\ GradeApplied("Contrast") <=> GradeGiven("contrast")
        /\ GradeApplied("Color") <=> GradeGiven("saturation")
        /\ GradeApplied("temperature_shift") <=> GradeGivenNonZero("temperature_shift")
        /\ GradeApplied("shadow_lift") <=> GradeGivenNonZero("shadow_lift")
        /\ GradeApplied("highlight_lift") <=> GradeGivenNonZero("highlight_lift")
        /\ GradeApplied("local_contrast") <=>
               (GradeGiven("micro_contrast") \/ GradeGiven("local_contrast"))
        /\ \A perm \in Permutations(1..Len(gradeCur.grading)) :
               apply_grading(gradeImage,
                             [i \in 1..Len(gradeCur.grading) |-> gradeCur.grading[perm[i]]])
                   = gradeCur.result

\* C10 witness: a mapping that lists saturation before contrast: contrast
\* was applied first and saturation to its output.
C10_Witness ==
    /\ gradeCur.called
    /\ Len(gradeCur.grading) = 2
    /\ gradeCur.grading[1][1] = "saturation"
    /\ gradeCur.grading[2][1] = "contrast"
    /\ Len(GradeTrace) = 2
    /\ GradeTrace[1][1] = "Contrast"
    /\ GradeTrace[2][1] = "Color"

\* The value the mapping of the latest call gives to `key` (not null).
GradeValueOf(key) ==
    gradeCur.grading[CHOOSE i \in 1..Len(gradeCur.grading) :
                         gradeCur.grading[i][1] = key][2][1]

\* The parameter with which `primitive` was applied by the latest call.
GradeParameterOf(primitive) ==
    GradeTrace[CHOOSE k \in 1..Len(GradeTrace) : GradeTrace[k][1] = primitive][2]

\* The factor the specification gives for a contrast or saturation input v
\* (in units of 1/GradeDen): 1 + v on [-1, 1], v above 1, 0 below -1.
CoercedFactor(v) ==
    IF v > GradeDen THEN v
    ELSE IF v < -GradeDen THEN 0
    ELSE GradeDen + v

\* C11: the factor handed to the contrast and to the saturation primitive is
\* 1 + v for an input v in [-1, 1], v itself for v > 1 and 0 for v < -1, and
\* so it is never negative.
C11_EnhanceFactorCoercion ==
    gradeCur.called =>
        /\ GradeGiven("contrast") =>
               /\ GradeApplied("Contrast")
               /\ GradeParameterOf("Contrast") = CoercedFactor(GradeValueOf("contrast"))
               /\ GradeParameterOf("Contrast") >= 0
        /\ GradeGiven("saturation") =>
               /\ GradeApplied("Color")
               /\ GradeParameterOf("Color") = CoercedFactor(GradeValueOf("saturation"))
               /\ GradeParameterOf("Color") >= 0

\* C11 witness: a contrast of -3.0 was clamped to the factor 0 and a
\* saturation of 0.25 became the factor 1.25.
C11_Witness ==
    /\ gradeCur.called
    /\ GradeGiven("contrast")
    /\ GradeValueOf("contrast") = -3 * GradeDen
    /\ GradeApplied("Contrast")
    /\ GradeParameterOf("Contrast") = 0
    /\ GradeGiven("saturation")
    /\ GradeValueOf("saturation") = GradeDen \div 4
    /\ GradeParameterOf("Color") = GradeDen + GradeDen \div 4

\* C12: every multiplicative factor apply_grading passes to a primitive
\* (brightness, contrast, saturation) is >= 0 and every amount used by the
\* shadow lift and the highlight lift is in [0, 1].
C12_GradingParametersInDomain ==
    gradeCur.called =>
        \A k \in 1..Len(GradeTrace) :
            /\ (GradeTrace[k][1] \in {"Brightness", "Contrast", "Color"}) =>
                   GradeTrace[k][2] >= 0
            /\ (GradeTrace[k][1] \in {"shadow_lift", "highlight_lift"}) =>
                   (0 <= GradeTrace[k][2] /\ GradeTrace[k][2] <= GradeDen)

(***************************************************************************)
(* Claims about the grading primitives (checked under SpecPrim).           *)
(***************************************************************************)
\* The latest call has the neutral parameter of its primitive.
NeutralCall ==
    \/ /\ primCall.primitive \in {"apply_temperature_shift", "apply_shadow_lift",
                                  "apply_highlight_lift"}
       /\ primCall.parameters = <<0>>
    \/ /\ primCall.primitive = "apply_local_contrast"
       /\ primCall.parameters = <<GradeDen>>
    \/ /\ primCall.primitive = "enhance_material_definition"
       /\ primCall.parameters = <<GradeDen, GradeDen, GradeDen, GradeDen>>
    \/ /\ primCall.primitive = "apply_grading"
       /\ primCall.parameters = <<>>

\* C13: a primitive called with its neutral parameter returns a buffer that
\* is a distinct object of the same mode, size and bytes as the input, and
\* the input is what it was.
C13_NeutralParameterIsCopy ==
    (primCall.called /\ NeutralCall) =>
        /\ primCall.result # 1
        /\ primHeap[1].pixels = SourcePixels
        /\ primHeap[primCall.result].mode = primHeap[1].mode
        /\ primHeap[primCall.result].size = primHeap[1].size
        /\ Computable(primHeap[primCall.result])
        /\ ImageData(primHeap[primCall.result], primData) = primData

\* The sum of the first k entries of a sequence of integers.
RECURSIVE SeqSum(_, _)
SeqSum(seq, k) == IF k = 0 THEN 0 ELSE seq[k] + SeqSum(seq, k - 1)

\* The bytes of the image the latest call returned.
PrimResultData == ImageData(primHeap[primCall.result], primData)

\* The sum of channel `ch` over the pixels of `data` (the mean times the
\* number of pixels).
ChannelSum(data, ch) == SeqSum([i \in 1..Len(data) |-> data[i][ch]], Len(data))

\* C14: for every 8-bit image and every temperature shift > 0 the mean red
\* of the result is strictly greater, and its mean blue strictly smaller,
\* than that of the input.
C14_WarmShiftRaisesRedLowersBlue ==
    (/\ primCall.called
     /\ primCall.primitive = "apply_temperature_shift"
     /\ primCall.parameters[1] > 0
     /\ primHeap[1].mode \in {"RGB", "RGBA"}) =>
        /\ ChannelSum(PrimResultData, 1) > ChannelSum(primData, 1)
        /\ ChannelSum(PrimResultData, 3) < ChannelSum(primData, 3)

\* The colour samples of an image, one per pixel and channel.
Samples(data) ==
    [k \in 1..(3 * Len(data)) |-> data[((k - 1) \div 3) + 1][((k - 1) % 3) + 1]]

\* A sample below mid-gray.
Dark(v) == 2 * v < 255

\* Number of dark samples of the source, and the sum of their increases.
DarkCount ==
    SeqSum([k \in 1..(3 * Len(primData)) |-> IF Dark(Samples(primData)[k]) THEN 1 ELSE 0],
           3 * Len(primData))

DarkGain ==
    SeqSum([k \in 1..(3 * Len(primData)) |->
                IF Dark(Samples(primData)[k])
                THEN Samples(PrimResultData)[k] - Samples(primData)[k] ELSE 0],
           3 * Len(primData))

LightCount == 3 * Len(primData) - DarkCount

LightGain ==
    SeqSum([k \in 1..(3 * Len(primData)) |->
                IF Dark(Samples(primData)[k])
                THEN 0 ELSE Samples(PrimResultData)[k] - Samples(primData)[k]],
           3 * Len(primData))

\* C15: for every 8-bit image and every shadow-lift amount > 0 the mean of
\* the samples below mid-gray strictly increases, and it increases by more
\* than the mean of the samples above mid-gray.
C15_ShadowLiftBrightensDarkMost ==
    (/\ primCall.called
     /\ primCall.primitive = "apply_shadow_lift"
     /\ primCall.parameters[1] > 0
     /\ primHeap[1].mode = "RGB"
     /\ DarkCount > 0) =>
        /\ DarkGain > 0
        /\ (LightCount > 0) => (DarkGain * LightCount > LightGain * DarkCount)

\* C16: apply_local_contrast selects its mode from the amount alone: at 1
\* it returns the pixels of the input; above 1 it applies an unsharp step of
\* strictly positive strength; below 1 it blends with a blurred copy by the
\* factor 1 - amount clamped to [0, 1].
C16_LocalContrastModes ==
    (primCall.called /\ primCall.primitive = "apply_local_contrast") =>
        LET amount == primCall.parameters[1]
            result == primHeap[primCall.result].pixels
        IN  /\ (amount = GradeDen) => (result = primHeap[1].pixels)
            /\ (amount > GradeDen) =>
                   /\ Len(result) = Len(primHeap[1].pixels) + 1
                   /\ result[Len(result)][1] = "local_contrast"
                   /\ result[Len(result)][2] = "UnsharpMask"
                   /\ result[Len(result)][3] > 0
            /\ (amount < GradeDen) =>
                   /\ Len(result) = Len(primHeap[1].pixels) + 1
                   /\ result[Len(result)][1] = "local_contrast"
                   /\ result[Len(result)][2] = "blend"
                   /\ result[Len(result)][3] = Max2(0, Min2(GradeDen, GradeDen - amount))

\* The pixels that the mask of the inpaint call marks, and the others.
InpaintRegion == {i \in 1..Len(primData) : primCall.parameters[1][i] # 0}

InpaintBackground == (1..Len(primData)) \ InpaintRegion

\* Sum over the marked pixels and the three channels of the distance of
\* `data` to the colour of the source at the unmarked pixel `bg`; the mean
\* is this sum over three times the number of marked pixels.
RegionDistance(data, bg) ==
    SeqSum([i \in 1..Len(data) |->
               IF i \in InpaintRegion
               THEN Abs(data[i][1] - primData[bg][1]) + Abs(data[i][2] - primData[bg][2])
                        + Abs(data[i][3] - primData[bg][3])
               ELSE 0], Len(data))

\* C17: for every image, mask and parameters with strength > 0,
\* inpaint_with_mask strictly decreases the mean colour distance between
\* the masked region and the colour of the surrounding background.
C17_InpaintMovesRegionTowardsBackground ==
    (/\ primCall.called
     /\ primCall.primitive = "inpaint_with_mask"
     /\ primCall.parameters[2] > 0
     /\ InpaintRegion # {}) =>
        \A bg \in InpaintBackground :
            RegionDistance(PrimResultData, bg) < RegionDistance(primData, bg)

\* An inpaint operation of the list whose mask entry resolves to an image.
InpaintWithReadableMask(operation) ==
    /\ IsMapping(operation)
    /\ Get(operation, "type") = "inpaint"
    /\ Get(operation, "mask") # None
    /\ ~_resolve_mask(operation.mask, pvTask.source).raised

\* C18: an inpaint operation accepts a mask whose dimensions differ from
\* those of the working buffer: the mask is resampled to the buffer, the
\* operation succeeds and the buffer keeps its size.
C18_InpaintAcceptsMaskOfAnySize ==
    /\ (pvFailed.stage = "op") =>
           ~InpaintWithReadableMask(pvTask.operations[pvFailed.op])
    /\ (Len(pvApplied) = 1 /\ InpaintWithReadableMask(pvApplied[1])) =>
           pvImage.size = InputSize(pvTask.source)

\* The positions of the operations of the task that carry a quality key.
QualityCarriers == {i \in 1..Len(pvTask.operations) : "quality" \in DOMAIN pvTask.operations[i]}

ManifestRenders == GetOrEmpty(taskManifest, "renders")

VariantsOf(render) == GetOrEmpty(render, "variants")

\* The (render, variant) pairs of the manifest from render r on, in
\* manifest order.
RECURSIVE PairsFrom(_)
PairsFrom(r) ==
    IF r > Len(ManifestRenders) THEN <<>>
    ELSE [v \in 1..Len(VariantsOf(ManifestRenders[r])) |-> <<r, v>>] \o PairsFrom(r + 1)

ManifestPairs == PairsFrom(1)

HasEntry(mapping, key) == key \in DOMAIN mapping /\ mapping[key] # <<>>

\* A render with a source and at least one variant, each of them with a
\* filename or a name.
ValidRender(render) ==
    /\ HasEntry(render, "source")
    /\ HasEntry(render, "variants")
    /\ \A v \in 1..Len(render.variants) :
           HasEntry(render.variants[v], "filename") \/ HasEntry(render.variants[v], "name")

ValidManifest == \A r \in 1..Len(ManifestRenders) : ValidRender(ManifestRenders[r])

Against(dir, path) == IF path[1] = "/" THEN path ELSE dir \o path

\* The task of a pair: the source of the render against the input
\* directory, the filename (else the name) of the variant in the output
\* directory or in the directory of the variant, and its operations.
ExpectedTask(pair) ==
    LET render  == ManifestRenders[pair[1]]
        variant == render.variants[pair[2]]
        dir     == IF HasEntry(variant, "directory")
                   THEN Against(OutputDir, variant.directory) ELSE OutputDir
        name    == IF HasEntry(variant, "filename") THEN variant.filename ELSE variant.name
    IN  [source |-> Against(InputDir, render.source),
         output |-> Against(dir, name),
         operations |-> IF "operations" \in DOMAIN variant THEN variant.operations ELSE <<>>]

\* C20: iterate_tasks yields exactly one task per (render, variant) pair of
\* the manifest, in manifest order, each with the source of the render
\* resolved against the input directory, the output path of the variant
\* and the operations of the variant unchanged; it raises, and never ends
\* normally, when a render has no source or no variants or a variant has
\* neither filename nor name.
C20_OneTaskPerVariantInOrder ==
    /\ Len(taskYielded) <= Len(ManifestPairs)
    /\ (taskPc # "idle") =>
           \A k \in 1..Len(taskYielded) : taskYielded[k] = ExpectedTask(ManifestPairs[k])
    /\ (taskPc = "done") => (ValidManifest /\ Len(taskYielded) = Len(ManifestPairs))
    /\ (taskPc = "raised") => ~ValidManifest
    /\ (taskPc = "running" /\ Len(taskYielded) > 0) =>
           taskPos = ManifestPairs[Len(taskYielded)]

\* C20 witness: the generator is exhausted after four tasks of two renders,
\* one of them with an absolute source and one in an absolute directory.
C20_Witness ==
    /\ taskPc = "done"
    /\ Len(ManifestRenders) = 2
    /\ Len(taskYielded) = 4
    /\ \E k \in 1..4 : taskYielded[k].source = <<"/", "mnt", "b.png">>
    /\ \E k \in 1..4 : taskYielded[k].output = <<"/", "srv", "print.jpg">>
    /\ \E k \in 1..4 : taskYielded[k].output = <<"out", "social", "hero.png">>

\* C21: main routes to the YAML pipeline with the resolved manifest, input
\* and output paths unless --legacy is given; with --legacy it calls the
\* legacy pipeline with the input and output directories as overridden on
\* the command line and target_size = DCI_4K_RESOLUTION, never the YAML
\* pipeline, and returns the exit code of the pipeline it called.
C21_MainRoutesByLegacyFlag ==
    (mainCall.returned \/ mainCall.exits) =>
        /\ mainCall.returned
        /\ mainCall.call.input_dir =
               IF mainArgv.input_dir = "" THEN INPUT_DIR ELSE mainArgv.input_dir
        /\ mainCall.call.output_dir =
               IF mainArgv.output_dir = "" THEN OUTPUT_DIR ELSE mainArgv.output_dir
        /\ IF mainArgv.legacy
           THEN /\ mainCall.call.callee = "main_legacy"
                /\ mainCall.call.target_size = DCI_4K_RESOLUTION
           ELSE /\ mainCall.call.callee = "run_yaml_pipeline"
                /\ mainCall.call.manifest =
                       IF mainArgv.manifest = "" THEN DEFAULT_MANIFEST_PATH
                       ELSE mainArgv.manifest

\* The gain of a temperature shift, 1 + shift/100 clamped to [0.1, 10.0], in
\* units of 1/(100*GradeDen).
ClampedGain(shift) ==
    IF 100 * GradeDen + shift < 10 * GradeDen THEN 10 * GradeDen
    ELSE IF 100 * GradeDen + shift > 1000 * GradeDen THEN 1000 * GradeDen
    ELSE 100 * GradeDen + shift

\* C22: for every shift, apply_temperature_shift multiplies red by the
\* gain 1 + shift/100 clamped to [0.1, 10.0] and blue by its reciprocal,
\* clamps both to [0, 255], and leaves green and any alpha channel exactly
\* as they were.
C22_TemperatureShiftFrame ==
    (primCall.called /\ primCall.primitive = "apply_temperature_shift") =>
        \A i \in 1..Len(primData) :
            LET gain == ClampedGain(primCall.parameters[1])
                px   == primData[i]
                out  == PrimResultData[i]
            IN  /\ out[4] = px[4]
                /\ (primHeap[1].mode \in {"RGB", "RGBA"}) =>
                       /\ out[1] = Min2(255, (px[1] * gain) \div (100 * GradeDen))
                       /\ out[2] = px[2]
                       /\ out[3] = Min2(255, (px[3] * 100 * GradeDen) \div gain)

\* The sub-adjustment a mark of the pixel expression belongs to, "" if none.
MaterialStep(mark) ==
    IF mark[1] = "Sharpness" THEN "clarity"
    ELSE IF mark[1] \in {"UnsharpMask", "blend"} THEN "micro_contrast"
    ELSE IF mark[1] = "Contrast" THEN "depth"
    ELSE IF mark[1] = "Color" THEN "sheen"
    ELSE ""

IsMaterialStep(mark) == MaterialStep(mark) # ""

\* The sub-adjustments applied to the result of the latest call, in the
\* order of their application.
MaterialStepsApplied ==
    LET marks == SelectSeq(Tail(primHeap[primCall.result].pixels), IsMaterialStep)
    IN  [k \in 1..Len(marks) |-> MaterialStep(marks[k])]

\* The sub-adjustments whose parameter differs from 1.0, in the order
\* clarity, micro-contrast, depth, sheen.
MaterialStepsDue ==
    (IF primCall.parameters[1] # GradeDen THEN <<"clarity">> ELSE <<>>)
    \o (IF primCall.parameters[2] # GradeDen THEN <<"micro_contrast">> ELSE <<>>)
    \o (IF primCall.parameters[3] # GradeDen THEN <<"depth">> ELSE <<>>)
    \o (IF primCall.parameters[4] # GradeDen THEN <<"sheen">> ELSE <<>>)

\* C23: enhance_material_definition applies its sub-adjustments in the
\* order clarity, micro-contrast, depth, sheen, and applies each one if and
\* only if its parameter differs from the neutral value 1.0.
C23_MaterialStepsInOrderIffNotNeutral ==
    (primCall.called /\ primCall.primitive = "enhance_material_definition") =>
        MaterialStepsApplied = MaterialStepsDue

\* The feathered mask and the infill plate of the latest inpaint call, as
\* the call computes them from the mask and from the source.
InpaintFeathered == GaussianBlur(primCall.parameters[1], primCall.parameters[3][2])

InpaintInfill(ch) ==
    GaussianBlur([i \in 1..Len(primData) |-> primData[i][ch]], primCall.parameters[3][1])

Between(v, a, b) == (a <= v /\ v <= b) \/ (b <= v /\ v <= a)

\* C24: inpaint_with_mask composites base*(1 - m) + infill*m with m the
\* feathered mask in [0, 1] times the strength clamped to [0, 1]: every
\* output channel lies between the base value and the infill value, a
\* pixel with m = 0 is unchanged, an all-zero mask or a strength <= 0
\* returns an image identical to the input, and alpha is unchanged.
C24_InpaintIsConvexBlend ==
    (primCall.called /\ primCall.primitive = "inpaint_with_mask") =>
        /\ \A i \in 1..Len(primData) :
               /\ \A ch \in 1..3 :
                      Between(PrimResultData[i][ch], primData[i][ch], InpaintInfill(ch)[i])
               /\ (InpaintFeathered[i] = 0) =>
                      \A ch \in 1..3 : PrimResultData[i][ch] = primData[i][ch]
               /\ PrimResultData[i][4] = primData[i][4]
        /\ (primCall.parameters[2] <= 0 \/ primCall.parameters[1] = <<0, 0>>) =>
               PrimResultData = primData

(***************************************************************************)
(* Claims about the crop and resize branches of process_variant (checked   *)
(* under SpecGeometry).                                                    *)
(***************************************************************************)
IsCrop(operation) == IsMapping(operation) /\ Get(operation, "type") = "crop"

IsResize(operation) == IsMapping(operation) /\ Get(operation, "type") = "resize"

\* The crop operation names a preset of CROP_PRESETS.
HasResolvablePreset(operation) ==
    "preset" \in DOMAIN operation /\ operation.preset \in DOMAIN CROP_PRESETS

\* The crop operation carries an explicit aspect ratio.
HasExplicitRatio(operation) == "aspect" \in DOMAIN operation

\* The operation at which the task failed, if it failed in the loop.
FailedAtOperation ==
    pvFailed.stage = "op" /\ pvFailed.op \in 1..Len(pvTask.operations)

\* C25: a crop operation with a resolvable preset or an explicit aspect
\* ratio is applied, and the task fails at a crop operation if and only if
\* the operation carries neither of the two.
C25_CropFailsIffNeitherPresetNorRatio ==
    /\ \A i \in 1..Len(pvApplied) :
          IsCrop(pvApplied[i]) =>
             HasResolvablePreset(pvApplied[i]) \/ HasExplicitRatio(pvApplied[i])
    /\ (FailedAtOperation /\ IsCrop(pvTask.operations[pvFailed.op])) =>
          ~(HasResolvablePreset(pvTask.operations[pvFailed.op])
            \/ HasExplicitRatio(pvTask.operations[pvFailed.op]))

\* The resize operation names a known preset, or carries both a width and a
\* height, and the dimensions it names are strictly positive.
HasPositiveTarget(operation) ==
    IF "preset" \in DOMAIN operation
    THEN /\ operation.preset \in DOMAIN ASPECT_RATIO_PRESETS
         /\ ASPECT_RATIO_PRESETS[operation.preset][1] > 0
         /\ ASPECT_RATIO_PRESETS[operation.preset][2] > 0
    ELSE /\ "width" \in DOMAIN operation
         /\ "height" \in DOMAIN operation
         /\ operation.width > 0
         /\ operation.height > 0

\* The task holds a resize operation without a strictly positive target.
HasBadResize(operations) ==
    \E i \in 1..Len(operations) :
       IsResize(operations[i]) /\ ~HasPositiveTarget(operations[i])

\* C26: a task with a resize operation whose target is unresolvable or not
\* strictly positive in both dimensions ends as failed (process_variant
\* returns False and no exception leaves it), so a task that succeeds has
\* only resize targets that are strictly positive.
C26_BadResizeTargetFailsTask ==
    /\ (pvPc \in {"returned", "raised"} /\ HasBadResize(pvTask.operations)) =>
          (pvPc = "returned" /\ pvReturn = "False")
    /\ pvReturn = "True" => ~HasBadResize(pvTask.operations)
    /\ (pvPc = "ops" /\ pvOpIdx > Len(pvTask.operations)
          /\ HasBadResize(pvTask.operations)) =>
          "ok" \notin SaveOutcomesFor(pvImage, pvTask.output, pvFiles)

\* A task fails at a resize operation whose explicit target is not positive.
C26_Witness ==
    /\ pvPc = "returned"
    /\ pvReturn = "False"
    /\ FailedAtOperation
    /\ IsResize(pvTask.operations[pvFailed.op])
    /\ "width" \in DOMAIN pvTask.operations[pvFailed.op]
    /\ "height" \in DOMAIN pvTask.operations[pvFailed.op]
    /\ ~HasPositiveTarget(pvTask.operations[pvFailed.op])

(***************************************************************************)
(* Crop-to-aspect applied twice (checked under SpecCrop).                  *)
(***************************************************************************)
\* The dimensions of the image a crop returns.
CroppedSize(box) == <<BoxWidth(box), BoxHeight(box)>>

\* C29: cropping the result of a crop again, to the same ratio and with any
\* offset, returns the whole already-cropped image.
C29_CropToAspectIsIdempotent ==
    cropCur.called =>
       \A offset \in OffsetInputs :
          crop_to_aspect(CroppedSize(cropCur.box), cropCur.aspect, offset)
             = <<0, 0, BoxWidth(cropCur.box), BoxHeight(cropCur.box)>>

(***************************************************************************)
(* Output locations of the tasks of one manifest (checked under SpecTasks).*)
(***************************************************************************)
\* C28: no two distinct tasks expanded from one manifest have the same
\* output path, so no task's output is overwritten by another task.
C28_TasksHaveDistinctOutputs ==
    \A i, j \in 1..Len(taskYielded) :
       i # j => taskYielded[i].output # taskYielded[j].output

(***************************************************************************)
(* Tasks run in any order (checked under SpecPool).                        *)
(***************************************************************************)
PoolFinished == \A i \in 1..Len(poolTasks) : poolResults[i] # "pending"

ManifestExpands ==
    /\ ~load_yaml_manifest(pipeIn).raised
    /\ ~ListTasks(pipeIn.data, <<0, 0>>, <<>>).raised

\* C30: run_yaml_pipeline never raises and returns 1 exactly when the
\* manifest cannot be loaded or is invalid, including an invalid entry found
\* while the manifest is expanded; otherwise it returns 0 when every task
\* succeeded and 2 when at least one task failed.
C30_PipelineAlwaysReturnsExitCode ==
    /\ pipe.pc # "raised"
    /\ pipe.pc = "returned" =>
          /\ pipe.code = 1 <=> ~ManifestExpands
          /\ pipe.code = 0 <=> (ManifestExpands /\ pipe.failed = 0)
          /\ pipe.code = 2 <=> (ManifestExpands /\ pipe.failed > 0)

====
